---- MODULE Spec2Model ----
(***************************************************************************)
(* Table-tennis match engine: the seedable random source, the trajectory   *)
(* simulator, the bounce model, the execution-quality model and the        *)
(* physics / player engines built on them.                                 *)
(*                                                                         *)
(* Numbers.  The program computes in IEEE doubles.  Here a real x is the   *)
(* integer Round(1000 x) ("milli"): centimetres, cm/s, rev/s, fractions in *)
(* [0,1] and Gaussian deviates all carry three decimals.  Times are in     *)
(* microseconds.  Products and quotients go through MulDiv, which keeps    *)
(* every intermediate inside the 32-bit integers of the checker by giving  *)
(* up low-order bits of the larger factor, the way a float does.  The      *)
(* 32-bit words of the generator are kept exactly, as two 16-bit limbs.    *)
(***************************************************************************)
EXTENDS Integers, Sequences, FiniteSets, TLC

VARIABLES
    rngs,      \* the generator closures: id -> [s0, s1, s2, s3, hasSpare, spare]
    calls,     \* SpecRng: per source, the calls made so far
    outs,      \* SpecRng: per source, the values returned so far
    fl,        \* the trajectory loop in progress (simulateFlight's locals)
    sv,        \* the serve in progress (simulateServe's locals)
    calc,      \* the last pure computation: its name, inputs and result
    sims       \* SpecEngine: the two simulation setups driven side by side

vars == <<rngs, calls, outs, fl, sv, calc, sims>>

----------------------------------------------------------------------------
(* Integer helpers                                                          *)

Abs(x) == IF x < 0 THEN -x ELSE x

sign(x) == IF x > 0 THEN 1 ELSE IF x < 0 THEN -1 ELSE 0

Max2(a, b) == IF a >= b THEN a ELSE b

Min2(a, b) == IF a <= b THEN a ELSE b

RECURSIVE UMulDiv(_, _, _)
\* a * b / s for a, b >= 0, s > 0.  While the product would leave the
\* integer range the larger factor is halved, together with s when s is
\* large and otherwise doubling the result: about 14 bits are kept
UMulDiv(a, b, s) ==
    IF a = 0 \/ b = 0 THEN 0
    ELSE IF a <= 2147483647 \div b THEN (a * b) \div s
    ELSE IF s >= 32768
         THEN IF a >= b THEN UMulDiv(a \div 2, b, s \div 2)
                        ELSE UMulDiv(a, b \div 2, s \div 2)
         ELSE IF a >= b THEN 2 * UMulDiv(a \div 2, b, s)
                        ELSE 2 * UMulDiv(a, b \div 2, s)

\* the real product a * b / s, rounded toward zero
MulDiv(a, b, s) == sign(a) * sign(b) * UMulDiv(Abs(a), Abs(b), s)

\* product of two milli values
Mul(a, b) == MulDiv(a, b, 1000)

RECURSIVE Isqrt(_)
\* floor of the square root, n < 2^31
Isqrt(n) ==
    IF n < 2 THEN n
    ELSE LET s == 2 * Isqrt(n \div 4)
         IN  IF s + 1 <= n \div (s + 1) THEN s + 1 ELSE s

RECURSIVE Log2Floor(_)
Log2Floor(n) == IF n < 2 THEN 0 ELSE 1 + Log2Floor(n \div 2)

RECURSIVE AtanhTerms(_, _, _, _)
\* zk / k + zk z2 / (k + 2) + ... up to the term in z^9, in micro
AtanhTerms(zk, z2, k, last) ==
    IF k > last THEN 0
    ELSE zk \div k + AtanhTerms(MulDiv(zk, z2, 1000000), z2, k + 2, last)

\* atanh(z) = z + z^3/3 + z^5/5 + z^7/7 + z^9/9 for 0 <= z <= 1/3, in micro
AtanhMicro(z) == AtanhTerms(z, MulDiv(z, z, 1000000), 1, 9)

\* Math.max(min, Math.min(max, v))
clamp(v, min, max) == Max2(min, Min2(max, v))

\* the bindings env with key bound to F(env): one `const key = ...`
With(env, key, F(_)) ==
    [fld \in DOMAIN env \cup {key} |-> IF fld = key THEN F(env) ELSE env[fld]]

\* what F computes from the bindings made
Return(env, F(_)) == F(env)

\* Math.log of the positive integer n, in micro (1e-6):
\* n = 2^k m, ln n = k ln 2 + 2 atanh((m - 1) / (m + 1))
LnMicro(n) ==
    Return(With(With([n |-> n],
        "k", LAMBDA e : Log2Floor(n)),
        "p", LAMBDA e : 2^e.k),
        LAMBDA e :
            e.k * 693147 + 2 * AtanhMicro(MulDiv(n - e.p, 1000000, n + e.p)))

----------------------------------------------------------------------------
(* 32-bit words: <<hi, lo>>, each limb in 0..65535                          *)

RECURSIVE Bits(_, _, _)
\* a ^ b (op "xor") and a | b (op "or") of naturals, bit by bit
Bits(op, a, b) ==
    IF a = 0 /\ b = 0 THEN 0
    ELSE (IF op = "xor" THEN (a + b) % 2
          ELSE IF a % 2 = 1 \/ b % 2 = 1 THEN 1 ELSE 0)
         + 2 * Bits(op, a \div 2, b \div 2)

\* the two operations on hexadecimal digits, tabulated
Hex ==
    [op \in {"xor", "or"} |-> [a \in 0..15 |-> [b \in 0..15 |-> Bits(op, a, b)]]]

\* the operation on 16-bit limbs, digit by digit
Limb(op, a, b) ==
    Hex[op][a % 16][b % 16]
    + 16 * Hex[op][(a \div 16) % 16][(b \div 16) % 16]
    + 256 * Hex[op][(a \div 256) % 16][(b \div 256) % 16]
    + 4096 * Hex[op][a \div 4096][b \div 4096]

\* x ^ y
Xor32(x, y) == <<Limb("xor", x[1], y[1]), Limb("xor", x[2], y[2])>>

\* x | y
Or32(x, y) == <<Limb("or", x[1], y[1]), Limb("or", x[2], y[2])>>

\* x << k, 0 <= k < 32
Shl32(x, k) ==
    IF k >= 16 THEN <<(x[2] * 2^(k - 16)) % 65536, 0>>
    ELSE <<((x[1] * 2^k) % 65536) + ((x[2] * 2^k) \div 65536),
           (x[2] * 2^k) % 65536>>

\* x >>> k, 0 <= k < 32
Shr32(x, k) ==
    IF k >= 16 THEN <<0, x[1] \div 2^(k - 16)>>
    ELSE <<x[1] \div 2^k,
           (x[2] \div 2^k) + (x[1] % 2^k) * 2^(16 - k)>>

\* (x + y) | 0
Add32(x, y) ==
    LET lo == x[2] + y[2]
    IN  <<(x[1] + y[1] + lo \div 65536) % 65536, lo % 65536>>

\* low 16 bits of the product of two 16-bit limbs
MulLo16(a, b) == (((a % 256) * b) + (((a \div 256) * b) % 256) * 256) % 65536

\* bits 16.. of the product of two 16-bit limbs, modulo 2^16
MulHi16(a, b) ==
    ((((a % 256) * b) + (((a \div 256) * b) % 256) * 256) \div 65536
       + ((a \div 256) * b) \div 256) % 65536

\* Math.imul(x, y): the low 32 bits of the product
imul(x, y) ==
    <<(MulHi16(x[2], y[2]) + MulLo16(x[1], y[2]) + MulLo16(x[2], y[1])) % 65536,
      MulLo16(x[2], y[2])>>

rotl(x, k) == Or32(Shl32(x, k), Shr32(x, 32 - k))

----------------------------------------------------------------------------
(* rng.ts: splitmix32 seeding and the xoshiro128** generator                *)

Sources == {1, 2}

\* the integer seed as a 32-bit word (seed |= 0)
toWord(seed) == <<(seed \div 65536) % 65536, seed % 65536>>

\* splitmix32: seed = (seed + 0x9e3779b9) | 0
smAdvance(seed) == Add32(seed, <<40503, 31161>>)

\* t ^ (t >>> k)
xorShr(t, k) == Xor32(t, Shr32(t, k))

\* splitmix32: the value returned for the advanced seed
smMix(seed) == xorShr(imul(xorShr(imul(xorShr(seed, 16), <<8688, 43693>>), 15),
                          <<29530, 11671>>), 15)

\* createRng: the closure's state right after construction
createRng(seed) ==
    [s0 |-> smMix(smAdvance(toWord(seed))),
     s1 |-> smMix(smAdvance(smAdvance(toWord(seed)))),
     s2 |-> smMix(smAdvance(smAdvance(smAdvance(toWord(seed))))),
     s3 |-> smMix(smAdvance(smAdvance(smAdvance(smAdvance(toWord(seed)))))),
     hasSpare |-> FALSE, spare |-> 0]

\* a next() that also discards the cached Gaussian value
nextClearsSpare(H, r) ==
    Return(With(With(With(With([s |-> H[r]],
        "result", LAMBDA e : imul(rotl(imul(e.s.s1, <<0, 5>>), 7), <<0, 9>>)),
        "t", LAMBDA e : Shl32(e.s.s1, 9)),
        "s2", LAMBDA e : Xor32(e.s.s2, e.s.s0)),
        "s3", LAMBDA e : Xor32(e.s.s3, e.s.s1)),
        LAMBDA e :
            [H |-> [H EXCEPT ![r] =
                      [e.s EXCEPT !.s0 = Xor32(e.s.s0, e.s3),
                                  !.s1 = Xor32(e.s.s1, e.s2),
                                  !.s2 = Xor32(e.s2, e.t),
                                  !.s3 = rotl(e.s3, 11),
                                  !.hasSpare = FALSE]],
             v |-> e.result])

\* next(): the xoshiro128** step of closure r; v is the numerator of the
\* returned value result / 4294967296
next(H, r) ==
    Return(With(With(With(With([s |-> H[r]],
        "result", LAMBDA e : imul(rotl(imul(e.s.s1, <<0, 5>>), 7), <<0, 9>>)),
        "t", LAMBDA e : Shl32(e.s.s1, 9)),
        "s2", LAMBDA e : Xor32(e.s.s2, e.s.s0)),
        "s3", LAMBDA e : Xor32(e.s.s3, e.s.s1)),
        LAMBDA e :
            [H |-> [H EXCEPT ![r] =
                      [e.s EXCEPT !.s0 = Xor32(e.s.s0, e.s3),
                                  !.s1 = Xor32(e.s.s1, e.s2),
                                  !.s2 = Xor32(e.s2, e.t),
                                  !.s3 = rotl(e.s3, 11)]],
             v |-> e.result])

\* a value of next() as a milli fraction in [0, 1)
unitMilli(w) == (w[1] * 1000) \div 65536

\* next() > 0.5
aboveHalf(w) == w[1] > 32768 \/ (w[1] = 32768 /\ w[2] > 0)

\* next() * 2 - 1, in units of 1/16384
signedUnit(w) == (w[1] \div 2) - 16384

RECURSIVE polarPair(_, _)
\* the do-while of gaussian(): draws pairs (u, v) until 0 < u*u + v*v < 1;
\* s is u*u + v*v in units of 2^-28
polarPair(H, r) ==
    Return(With(With(With(With(With([H |-> H],
        "a", LAMBDA e : next(e.H, r)),
        "b", LAMBDA e : next(e.a.H, r)),
        "u", LAMBDA e : signedUnit(e.a.v)),
        "v", LAMBDA e : signedUnit(e.b.v)),
        "s", LAMBDA e : e.u * e.u + e.v * e.v),
        LAMBDA e :
            IF e.s >= 268435456 \/ e.s = 0 THEN polarPair(e.b.H, r)
            ELSE [H |-> e.b.H, u |-> e.u, v |-> e.v, s |-> e.s])

\* gaussian(mean, stddev) of closure r, whose spare lives in closure c: the
\* spare is returned when there is one, else v * mul is kept and u * mul
\* returned.  mul = Math.sqrt((-2 * Math.log(s)) / s) in milli, s = p.s / 2^28;
\* the square root of the quotient is taken as the quotient of the square
\* roots
gaussianAt(H, r, c, mean, stddev) ==
    IF H[c].hasSpare
    THEN [H |-> [H EXCEPT ![c].hasSpare = FALSE],
          v |-> mean + Mul(stddev, H[c].spare)]
    ELSE Return(With(With([H |-> H],
        "p", LAMBDA e : polarPair(e.H, r)),
        "mul", LAMBDA e :
            MulDiv(Isqrt(2 * (28 * 693147 - LnMicro(e.p.s))), 32768,
                   Isqrt(4 * e.p.s))),
        LAMBDA e :
            [H |-> [e.p.H EXCEPT ![c].hasSpare = TRUE,
                                 ![c].spare = MulDiv(e.p.v, e.mul, 16384)],
             v |-> mean + Mul(stddev, MulDiv(e.p.u, e.mul, 16384))])

\* a fault: hasSpare and spare declared at module scope, shared by every
\* generator
gaussianSharedSpare(H, r, mean, stddev) == gaussianAt(H, r, 1, mean, stddev)

\* gaussian(mean, stddev): hasSpare and spare belong to the closure
gaussian(H, r, mean, stddev) == gaussianAt(H, r, r, mean, stddev)

----------------------------------------------------------------------------
(* vec-math.ts                                                              *)

V3(x, y, z) == [x |-> x, y |-> y, z |-> z]

V2(x, y) == [x |-> x, y |-> y]

v3add(a, b) == V3(a.x + b.x, a.y + b.y, a.z + b.z)

v3sub(a, b) == V3(a.x - b.x, a.y - b.y, a.z - b.z)

\* v3scale by a factor given in micro (1e-6)
v3scaleMicro(v, k) ==
    V3(MulDiv(v.x, k, 1000000), MulDiv(v.y, k, 1000000), MulDiv(v.z, k, 1000000))

\* v3cross of two milli vectors, in whole units
v3cross(a, b) ==
    V3(MulDiv(a.y, b.z, 1000000) - MulDiv(a.z, b.y, 1000000),
       MulDiv(a.z, b.x, 1000000) - MulDiv(a.x, b.z, 1000000),
       MulDiv(a.x, b.y, 1000000) - MulDiv(a.y, b.x, 1000000))

\* Math.sqrt(x*x + y*y + z*z); the components are scaled down together
\* so that the squares fit
mag3(x, y, z) ==
    LET m == Max2(Abs(x), Max2(Abs(y), Abs(z)))
        k == m \div 20000 + 1
    IN  k * Isqrt((x \div k) * (x \div k) + (y \div k) * (y \div k)
                  + (z \div k) * (z \div k))

v3mag(v) == mag3(v.x, v.y, v.z)

v2dist(a, b) == mag3(a.x - b.x, a.y - b.y, 0)

\* v2lerp: t (milli) is clamped to [0, 1]
v2lerp(a, b, t) ==
    LET tc == Max2(0, Min2(1000, t))
    IN  V2(a.x + Mul(b.x - a.x, tc), a.y + Mul(b.y - a.y, tc))

----------------------------------------------------------------------------
(* physics/constants.ts.  Milli units; times in microseconds; airDensity    *)
(* (g/cm3) in 1e-9.                                                         *)

RubberTypes == {"inverted", "shortPips", "longPips", "antispin"}

DEFAULT_PHYSICS_CONFIG ==
    [ tableLength |-> 274000, tableWidth |-> 152500, netHeight |-> 15250,
      ballMass |-> 2700, ballDiameter |-> 4000, airDensity |-> 1225000,
      dragCoefficient |-> 400, magnusCoefficient |-> 600, gravity |-> 981000,
      restitution |-> 930, surfaceFriction |-> 250,
      positionWeight |-> 600, timePressureWeight |-> 400, riskWeight |-> 500,
      baseErrorStddev |-> 150,
      maxRecoverySpeed |-> 500000, comfortableTime |-> 400000,
      timestep |-> 2000, maxFlightTime |-> 3000000,
      netContactMargin |-> 1000, edgeContactMargin |-> 1000,
      serveContactHeight |-> 30000, serveStartDepth |-> 20000,
      serveFirstBounceXScale |-> 300, serveFirstBounceYFraction |-> 500,
      baseContactHeight |-> 20000, contactHeightVelocityScale |-> 20,
      fallbackTimeAvailable |-> 500000,
      horizontalSpeedFraction |-> 850,
      netClipRetentionX |-> 700, netClipRetentionY |-> 500,
      netClipRetentionZ |-> 300,
      edgeDeflectionStddevX |-> 30000, edgeDeflectionStddevY |-> 20000,
      edgeDeflectionMinZRetention |-> 500,
      accuracyErrorFloor |-> 300, spinErrorScale |-> 200,
      elevationErrorScale |-> 500,
      stretchThreshold |-> 850,
      powerToSpeed |-> 3000000, spinToRevs |-> 150000,
      rubberTypeModifiers |->
        [ inverted  |-> [spinGeneration |-> 1000, speedGeneration |-> 1000,
                         spinReversal |-> 0, spinAbsorption |-> 0],
          shortPips |-> [spinGeneration |-> 500, speedGeneration |-> 1150,
                         spinReversal |-> 0, spinAbsorption |-> 300],
          longPips  |-> [spinGeneration |-> 200, speedGeneration |-> 700,
                         spinReversal |-> 700, spinAbsorption |-> 100],
          antispin  |-> [spinGeneration |-> 100, speedGeneration |-> 600,
                         spinReversal |-> 0, spinAbsorption |-> 850] ] ]

\* mergeConfig: the overrides over the defaults, rubberTypeModifiers merged
\* key by key
mergeConfig(overrides) ==
    [k \in DOMAIN DEFAULT_PHYSICS_CONFIG |->
        IF k \notin DOMAIN overrides THEN DEFAULT_PHYSICS_CONFIG[k]
        ELSE IF k # "rubberTypeModifiers" THEN overrides[k]
        ELSE [t \in RubberTypes |->
                IF t \in DOMAIN overrides[k] THEN overrides[k][t]
                ELSE DEFAULT_PHYSICS_CONFIG[k][t]]]

NoOverrides == [x \in {} |-> 0]

----------------------------------------------------------------------------
(* physics/bounce.ts                                                        *)

\* a fault: the vertical velocity keeps its sign
applyBounceNoReverse(velocity, spin, config) ==
    [velocity |-> V3(velocity.x + Mul(spin.y, config.surfaceFriction),
                     velocity.y - Mul(spin.x, config.surfaceFriction),
                     Mul(velocity.z, config.restitution)),
     spin |-> V3(Mul(spin.x, 1000 - config.surfaceFriction),
                 Mul(spin.y, 1000 - config.surfaceFriction),
                 Mul(spin.z, 1000 - config.surfaceFriction))]

\* the coupling along the spin's own axis: vx from spin.x, vy from spin.y
applyBounceAlongAxis(velocity, spin, config) ==
    [velocity |-> V3(velocity.x + Mul(spin.x, config.surfaceFriction),
                     velocity.y + Mul(spin.y, config.surfaceFriction),
                     Mul(-velocity.z, config.restitution)),
     spin |-> V3(Mul(spin.x, 1000 - config.surfaceFriction),
                 Mul(spin.y, 1000 - config.surfaceFriction),
                 Mul(spin.z, 1000 - config.surfaceFriction))]

applyBounce(velocity, spin, config) ==
    LET vz == Mul(-velocity.z, config.restitution)
        vx == velocity.x + Mul(spin.y, config.surfaceFriction)
        vy == velocity.y - Mul(spin.x, config.surfaceFriction)
        spinRetention == 1000 - config.surfaceFriction
    IN  [velocity |-> V3(vx, vy, vz),
         spin |-> V3(Mul(spin.x, spinRetention), Mul(spin.y, spinRetention),
                     Mul(spin.z, spinRetention))]

----------------------------------------------------------------------------
(* trajectory.ts: simulateFlight                                            *)

\* Math.PI and 2 * Math.PI in micro
PiMicro == 3141593

TwoPiMicro == 6283185

\* MAX_STEPS = Math.ceil(maxFlightTime / dt)
MAX_STEPS(config) ==
    (config.maxFlightTime + config.timestep - 1) \div config.timestep

\* Math.sign(startPos.y) || 1
startSideOf(startPos) == IF sign(startPos.y) = 0 THEN 1 ELSE sign(startPos.y)

NoResult == [none |-> TRUE]

TrajectoryResult(apex, pos, vel, spn, net, edge, crossed, lands, time) ==
    [apex |-> apex, landingPosition |-> pos, landingVelocity |-> vel,
     landingSpin |-> spn, netContact |-> net, edgeContact |-> edge,
     crossedNet |-> crossed, landsOnTable |-> lands, flightTime |-> time]

\* the locals of simulateFlight on entry to its loop
flightInit(startPos, velocity, spin, config) ==
    [pos |-> startPos, vel |-> velocity, spn |-> spin, apex |-> startPos,
     netContact |-> FALSE, edgeContact |-> FALSE, crossedNet |-> FALSE,
     time |-> 0, step |-> 0, startSide |-> startSideOf(startPos),
     config |-> config, done |-> FALSE, result |-> NoResult]

\* a fault: the loop runs while step <= MAX_STEPS
loopGuardOffByOne(f) == f.step <= MAX_STEPS(f.config)

\* the loop condition step < MAX_STEPS
loopGuard(f) == f.step < MAX_STEPS(f.config)

\* the velocity after the force computation and the Euler update; the
\* drag and Magnus factors are in 1e-9
eulerVelocity(f) ==
    Return(With(With(With(With(With(With([vel |-> f.vel],
        "area", LAMBDA e :
            MulDiv(PiMicro, Mul(f.config.ballDiameter \div 2,
                                f.config.ballDiameter \div 2), 1000000)),
        "dragFactor", LAMBDA e :
            Mul(Mul(f.config.airDensity \div 2, f.config.dragCoefficient),
                e.area)),
        "magnusFactor", LAMBDA e :
            Mul(Mul(f.config.magnusCoefficient, f.config.airDensity), e.area)),
        "speed", LAMBDA e : v3mag(e.vel)),
        "drag", LAMBDA e :
            IF e.speed > 0
            THEN v3scaleMicro(e.vel, -MulDiv(e.dragFactor, e.speed,
                                             f.config.ballMass * 1000))
            ELSE V3(0, 0, 0)),
        "magnus", LAMBDA e :
            v3scaleMicro(v3cross(v3scaleMicro(f.spn, TwoPiMicro), e.vel),
                         MulDiv(e.magnusFactor, 1000, f.config.ballMass))),
        LAMBDA e :
            v3add(e.vel,
                  v3scaleMicro(v3add(v3add(V3(0, 0, -f.config.gravity), e.drag),
                                     e.magnus),
                               f.config.timestep)))

\* a fault: every crossing below the net height is taken as a clip
netOutcomeAlwaysClip(netZ, config) ==
    IF netZ <= 0 THEN "below"
    ELSE IF netZ < config.netHeight THEN "clip" ELSE "clear"

\* the classification of a net crossing whose interpolated height is netZ
netOutcome(netZ, config) ==
    IF netZ <= 0 THEN "below"
    ELSE IF netZ < config.netHeight
         THEN IF netZ > config.netHeight - config.netContactMargin
              THEN "clip" ELSE "into"
         ELSE "clear"

\* the net-crossing block of one step: what happens at the net, and where
netEvent(pos, newPos, crossedNet, startSide, config) ==
    IF crossedNet \/ sign(newPos.y) = startSide \/ sign(newPos.y) = 0
    THEN [outcome |-> "none", netX |-> 0, netZ |-> 0]
    ELSE LET t == MulDiv(Abs(pos.y), 1000000, Abs(pos.y) + Abs(newPos.y))
         IN  [outcome |-> netOutcome(pos.z + MulDiv(newPos.z - pos.z, t, 1000000),
                                     config),
              netX |-> pos.x + MulDiv(newPos.x - pos.x, t, 1000000),
              netZ |-> pos.z + MulDiv(newPos.z - pos.z, t, 1000000)]

\* the landing position interpolated at z = 0
landPosOf(pos, newPos) ==
    LET t == MulDiv(pos.z, 1000000, pos.z - newPos.z)
    IN  V3(pos.x + MulDiv(newPos.x - pos.x, t, 1000000),
           pos.y + MulDiv(newPos.y - pos.y, t, 1000000), 0)

\* a fault: only the width is tested
onTableWidthOnly(landX, landY, config) == Abs(landX) <= config.tableWidth \div 2

\* Math.abs(landX) <= halfWidth && Math.abs(landY) <= halfTable
onTable(landX, landY, config) ==
    /\ Abs(landX) <= config.tableWidth \div 2
    /\ Abs(landY) <= config.tableLength \div 2

\* the vertical retention drawn before the two deflections
edgeBounceRetentionFirst(vel, spn, config, H, r) ==
    Return(With(With(With(With([H |-> H],
        "bounced", LAMBDA e : applyBounce(vel, spn, config)),
        "n", LAMBDA e : next(e.H, r)),
        "gx", LAMBDA e : gaussian(e.n.H, r, 0, config.edgeDeflectionStddevX)),
        "gy", LAMBDA e : gaussian(e.gx.H, r, 0, config.edgeDeflectionStddevY)),
        LAMBDA e :
            [H |-> e.gy.H,
             velocity |->
                V3(e.bounced.velocity.x + e.gx.v, e.bounced.velocity.y + e.gy.v,
                   Mul(e.bounced.velocity.z,
                       config.edgeDeflectionMinZRetention
                       + Mul(unitMilli(e.n.v),
                             1000 - config.edgeDeflectionMinZRetention))),
             spin |-> e.bounced.spin])

\* the edge-contact branch: the bounce, then the random deflection drawn
\* in the order x, y, z
edgeBounce(vel, spn, config, H, r) ==
    Return(With(With(With(With([H |-> H],
        "bounced", LAMBDA e : applyBounce(vel, spn, config)),
        "gx", LAMBDA e : gaussian(e.H, r, 0, config.edgeDeflectionStddevX)),
        "gy", LAMBDA e : gaussian(e.gx.H, r, 0, config.edgeDeflectionStddevY)),
        "n", LAMBDA e : next(e.gy.H, r)),
        LAMBDA e :
            [H |-> e.n.H,
             velocity |->
                V3(e.bounced.velocity.x + e.gx.v, e.bounced.velocity.y + e.gy.v,
                   Mul(e.bounced.velocity.z,
                       config.edgeDeflectionMinZRetention
                       + Mul(unitMilli(e.n.v),
                             1000 - config.edgeDeflectionMinZRetention))),
             spin |-> e.bounced.spin])

\* a return from inside the loop at a landing, b = [H, velocity, spin]
flightLanded(g, landPos, b, edge, lands) ==
    [H |-> b.H,
     f |-> [g EXCEPT !.vel = b.velocity, !.spn = b.spin, !.edgeContact = edge,
                     !.done = TRUE,
                     !.result = TrajectoryResult(g.apex, landPos, b.velocity,
                                    b.spin, g.netContact, edge, g.crossedNet,
                                    lands, g.time)]]

\* the table-landing block of one step
flightLand(g, H, r, landPos) ==
    IF ~onTable(landPos.x, landPos.y, g.config)
    THEN flightLanded(g, landPos, [H |-> H, velocity |-> g.vel, spin |-> g.spn],
                      g.edgeContact, FALSE)
    ELSE IF Min2(g.config.tableWidth \div 2 - Abs(landPos.x),
                 g.config.tableLength \div 2 - Abs(landPos.y))
            <= g.config.edgeContactMargin
         THEN flightLanded(g, landPos, edgeBounce(g.vel, g.spn, g.config, H, r),
                           TRUE, TRUE)
         ELSE flightLanded(g, landPos,
                           With(applyBounce(g.vel, g.spn, g.config), "H",
                                LAMBDA e : H),
                           g.edgeContact, TRUE)

\* one iteration of the loop of simulateFlight, drawing from generator r:
\* the Euler update, the apex, the net-crossing block, the landing block
flightStep(f, H, r) ==
    Return(With(With(With(With(With([H |-> H],
        "vel", LAMBDA e : eulerVelocity(f)),
        "newPos", LAMBDA e :
            v3add(f.pos, v3scaleMicro(e.vel, f.config.timestep))),
        "moved", LAMBDA e :
            [f EXCEPT !.time = f.time + f.config.timestep,
                      !.step = f.step + 1, !.vel = e.vel,
                      !.apex = IF e.newPos.z > f.apex.z THEN e.newPos
                               ELSE f.apex]),
        "ev", LAMBDA e :
            netEvent(f.pos, e.newPos, f.crossedNet, f.startSide, f.config)),
        "g", LAMBDA e :
            IF e.ev.outcome = "clip"
            THEN [e.moved EXCEPT
                    !.netContact = TRUE, !.crossedNet = TRUE,
                    !.vel = V3(Mul(e.vel.x, f.config.netClipRetentionX),
                               Mul(e.vel.y, f.config.netClipRetentionY),
                               Mul(e.vel.z, f.config.netClipRetentionZ))]
            ELSE IF e.ev.outcome = "clear"
                 THEN [e.moved EXCEPT !.crossedNet = TRUE]
                 ELSE e.moved),
        LAMBDA e :
            IF e.ev.outcome \in {"below", "into"}
            THEN [H |-> H,
                  f |-> [e.moved EXCEPT
                           !.done = TRUE,
                           !.result = TrajectoryResult(e.moved.apex,
                                          V3(e.ev.netX, 0, e.ev.netZ), e.vel,
                                          f.spn, TRUE, FALSE, FALSE, FALSE,
                                          e.moved.time)]]
            ELSE IF e.newPos.z <= 0 /\ f.pos.z > 0
                 THEN flightLand(e.g, H, r, landPosOf(f.pos, e.newPos))
                 ELSE [H |-> H, f |-> [e.g EXCEPT !.pos = e.newPos]])

\* the return after the loop: the step budget is spent
flightTimeout(f) ==
    [f EXCEPT !.done = TRUE, !.result =
        TrajectoryResult(f.apex, f.pos, f.vel, f.spn, f.netContact,
                         f.edgeContact, f.crossedNet, FALSE, f.time)]

RECURSIVE flightRun(_, _, _)
\* n iterations of the loop from F = [f, H], stopping at a return; the
\* iterations are split in halves to keep the evaluation shallow
flightRun(F, r, n) ==
    IF F.f.done \/ n = 0 THEN F
    ELSE IF n = 1 THEN flightStep(F.f, F.H, r)
    ELSE flightRun(flightRun(F, r, n \div 2), r, n - n \div 2)

\* simulateFlight as one call: [H, result]; the return after the loop
\* when no iteration returned
simulateFlight(startPos, velocity, spin, config, H, r) ==
    Return(With([H |-> H],
        "F", LAMBDA e :
            flightRun([f |-> flightInit(startPos, velocity, spin, config),
                       H |-> e.H], r, MAX_STEPS(config))),
        LAMBDA e :
            [H |-> e.F.H,
             result |-> IF e.F.f.done THEN e.F.f.result
                        ELSE flightTimeout(e.F.f).result])

----------------------------------------------------------------------------
(* trajectory.ts: simulateServe                                             *)

\* a fault: the half with the server's own Y sign is taken as the wrong one
serveFaultSameSide(startPos, phase1) ==
    \/ ~phase1.landsOnTable
    \/ sign(phase1.landingPosition.y) = startSideOf(startPos)

\* the two early returns of simulateServe
serveFault(startPos, phase1) ==
    \/ ~phase1.landsOnTable
    \/ sign(phase1.landingPosition.y) # startSideOf(startPos)

\* a fault: the flags and the apex are taken from phase 2 alone
serveCombinePhase2Only(phase1, phase2) ==
    [phase2 EXCEPT !.flightTime = phase1.flightTime + phase2.flightTime]

\* the combined result of both phases
serveCombine(phase1, phase2) ==
    TrajectoryResult(
        IF phase1.apex.z > phase2.apex.z THEN phase1.apex ELSE phase2.apex,
        phase2.landingPosition, phase2.landingVelocity, phase2.landingSpin,
        phase1.netContact \/ phase2.netContact,
        phase1.edgeContact \/ phase2.edgeContact,
        phase2.crossedNet, phase2.landsOnTable,
        phase1.flightTime + phase2.flightTime)

\* simulateServe as one call: [H, result]
simulateServe(startPos, velocity, spin, config, H, r) ==
    Return(With(With([H |-> H],
        "phase1", LAMBDA e :
            simulateFlight(startPos, velocity, spin, config, e.H, r)),
        "phase2", LAMBDA e :
            IF serveFault(startPos, e.phase1.result) THEN e.phase1
            ELSE simulateFlight(e.phase1.result.landingPosition,
                                e.phase1.result.landingVelocity,
                                e.phase1.result.landingSpin, config,
                                e.phase1.H, r)),
        LAMBDA e :
            IF serveFault(startPos, e.phase1.result) THEN e.phase1
            ELSE [H |-> e.phase2.H,
                  result |-> serveCombine(e.phase1.result, e.phase2.result)])

----------------------------------------------------------------------------
(* execution.ts: execution quality.  Attributes are integers 0..100,        *)
(* fractions are milli, times are microseconds.                             *)

\* the product of the four factors, before the clamp; the time pressure
\* is 1 - clamp(timeAvailable / config.comfortableTime, 0, 1)
rawQuality(consistency, positionalDeficit, timeAvailable, riskLevel, config) ==
    Mul(Mul(Mul(consistency * 10,
                1000 - Mul(positionalDeficit, config.positionWeight)),
            1000 - Mul(1000 - clamp(MulDiv(timeAvailable, 1000,
                                           config.comfortableTime), 0, 1000),
                       config.timePressureWeight)),
        1000 - Mul(riskLevel, config.riskWeight))

\* a fault: the product is returned without the clamp
computeExecutionQualityUnclamped(consistency, positionalDeficit, timeAvailable, riskLevel, config) ==
    rawQuality(consistency, positionalDeficit, timeAvailable, riskLevel, config)

computeExecutionQuality(consistency, positionalDeficit, timeAvailable, riskLevel, config) ==
    clamp(rawQuality(consistency, positionalDeficit, timeAvailable, riskLevel,
                     config), 0, 1000)

computeServeQuality(serviceSkill, consistency, riskLevel, config) ==
    clamp(Mul((serviceSkill * 10 + consistency * 10) \div 2,
              1000 - Mul(riskLevel, config.riskWeight)), 0, 1000)

----------------------------------------------------------------------------
(* The physics engine (DefaultPhysicsEngine): analyzeArrival                *)

\* a quotient a * s / b of the program; on a zero divisor the program's
\* result is not a finite number, which is 0 here and is told apart by the
\* divisor itself
Quot(a, s, b) == IF b = 0 THEN 0 ELSE sign(b) * MulDiv(a, s, Abs(b))

\* (receiverFootwork / 100) * maxRecoverySpeed * timeAvailable
maxReachOf(footwork, timeAvailable, config) ==
    MulDiv((footwork * config.maxRecoverySpeed) \div 100, timeAvailable, 1000000)

\* computeAvailableSides: one side when stretched beyond 0.85
computeAvailableSides(playerPos, ballPos, positionalDeficit) ==
    IF positionalDeficit > 850
    THEN IF ballPos.x - playerPos.x >= 0 THEN <<"forehand">>
         ELSE <<"backhand">>
    ELSE <<"forehand", "backhand">>

\* analyzeArrival(ball, receiverPosition, receiverCapabilities,
\* receiverFootwork); the capabilities are not read
analyzeArrival(ball, receiverPosition, receiverFootwork, config) ==
    Return(With(With(With(With(With(With([ball |-> ball],
        "ballSpeed", LAMBDA e : v3mag(ball.velocity)),
        "distance", LAMBDA e :
            v3mag(v3sub(ball.landingPosition, ball.startPosition))),
        "timeAvailable", LAMBDA e :
            IF e.ballSpeed > 0 THEN Quot(e.distance, 1000000, e.ballSpeed)
            ELSE 500000),
        "distToContact", LAMBDA e :
            v2dist(receiverPosition,
                   V2(ball.landingPosition.x, ball.landingPosition.y))),
        "maxReach", LAMBDA e :
            maxReachOf(receiverFootwork, e.timeAvailable, config)),
        "positionalDeficit", LAMBDA e :
            IF e.maxReach > 0
            THEN clamp(Quot(e.distToContact, 1000, e.maxReach), 0, 1000)
            ELSE IF e.distToContact > 0 THEN 1000 ELSE 0),
        LAMBDA e :
            [ballPosition |-> V3(ball.landingPosition.x, ball.landingPosition.y,
                                 20000 + Mul(Abs(ball.velocity.z), 20)),
             ballVelocity |-> ball.velocity,
             ballSpin |-> ball.spin,
             timeAvailable |-> e.timeAvailable,
             availableSides |->
                computeAvailableSides(receiverPosition,
                    V2(ball.landingPosition.x, ball.landingPosition.y),
                    e.positionalDeficit),
             positionalDeficit |-> e.positionalDeficit])

----------------------------------------------------------------------------
(* The physics engine: computeVelocity, computeSpinVector, the ceilings     *)

\* Math.sqrt(dx * dx + dy * dy)
horizontalDistOf(start, target) == mag3(target.x - start.x, target.y - start.y, 0)

\* horizontalDist / Math.max(horizontalSpeed, 1), in microseconds
flightTimeOver(dist, horizontalSpeed) ==
    Quot(dist, 1000000, Max2(horizontalSpeed, 1000))

\* the velocity for a horizontal distance dist > 0 and horizontal speed hs:
\* the vertical part from the landing constraint, or from the net
\* constraint when it asks for more and the ball crosses the net
velocityToward(start, target, netClearance, hs, dist, config) ==
    Return(With(With(With(With([dist |-> dist],
        "flightTime", LAMBDA e : flightTimeOver(e.dist, hs)),
        "vzLand", LAMBDA e :
            Quot(MulDiv(MulDiv(config.gravity \div 2, e.flightTime, 1000000),
                        e.flightTime, 1000000) - start.z,
                 1000000, e.flightTime)),
        "timeToNet", LAMBDA e : flightTimeOver(Abs(start.y), hs)),
        "vzNet", LAMBDA e :
            Quot(config.netHeight + netClearance - start.z
                   + MulDiv(MulDiv(config.gravity \div 2, e.timeToNet, 1000000),
                            e.timeToNet, 1000000),
                 1000000, e.timeToNet)),
        LAMBDA e :
            V3(MulDiv(Quot(target.x - start.x, 1000000, e.dist), hs, 1000000),
               MulDiv(Quot(target.y - start.y, 1000000, e.dist), hs, 1000000),
               IF sign(start.y) * sign(target.y) < 0
               THEN Max2(e.vzLand, e.vzNet) ELSE e.vzLand))

\* a fault: no guard on a zero horizontal distance
computeVelocityUnguarded(start, target, netClearance, speed, config) ==
    velocityToward(start, target, netClearance, Mul(speed, 850),
                   horizontalDistOf(start, target), config)

\* computeVelocity(start, target, netClearance, speed)
computeVelocity(start, target, netClearance, speed, config) ==
    IF horizontalDistOf(start, target) = 0 THEN V3(0, 0, -(speed \div 2))
    ELSE velocityToward(start, target, netClearance, Mul(speed, 850),
                        horizontalDistOf(start, target), config)

\* a fault: the fraction is taken as dist / maxDist
computeRecoveryInverted(currentPosition, targetPosition, footwork, timeAvailable, config) ==
    IF v2dist(currentPosition, targetPosition) <= 0 THEN currentPosition
    ELSE v2lerp(currentPosition, targetPosition,
                Min2(1000, Quot(v2dist(currentPosition, targetPosition), 1000,
                                maxReachOf(footwork, timeAvailable, config))))

\* computeRecovery(currentPosition, targetPosition, footwork, timeAvailable)
computeRecovery(currentPosition, targetPosition, footwork, timeAvailable, config) ==
    IF v2dist(currentPosition, targetPosition) <= 0 THEN currentPosition
    ELSE v2lerp(currentPosition, targetPosition,
                Min2(1000, Quot(maxReachOf(footwork, timeAvailable, config),
                                1000,
                                v2dist(currentPosition, targetPosition))))

----------------------------------------------------------------------------
(* execution.ts: applyError.  Angles are milli radians, sines and cosines   *)
(* micro.                                                                   *)

\* a * a, a in milli, in milli
sqMilli(a) == MulDiv(a, a, 1000)

\* Math.sin(a): a - a^3 / 6 + a^5 / 120
sinMicro(a) ==
    1000 * a - MulDiv(sqMilli(a), a, 6)
    + MulDiv(MulDiv(sqMilli(a), sqMilli(a), 1000), a, 120)

\* Math.cos(a): 1 - a^2 / 2 + a^4 / 24 - a^6 / 720
cosMicro(a) ==
    1000000 - MulDiv(a, a, 2)
    + MulDiv(MulDiv(sqMilli(a), sqMilli(a), 1000), 1000, 24)
    - MulDiv(MulDiv(sqMilli(a), sqMilli(a), 1000), sqMilli(a), 720)

\* applyError(intendedVelocity, intendedSpin, quality, accuracy, config, rng):
\* the ErrorResult less its targetOffset, which holds no number
\* (config.placementErrorScale is not a key of the configuration); its two
\* draws are made all the same
applyError(intendedVelocity, intendedSpin, quality, accuracy, config, H, r) ==
    Return(With(With(With(With(With(With([H |-> H],
        "angularErrorScale", LAMBDA e :
            Mul(Mul(config.baseErrorStddev, 1000 - quality),
                300 + Mul(700, 1000 - accuracy * 10))),
        "angleError", LAMBDA e : gaussian(e.H, r, 0, e.angularErrorScale)),
        "elevationError", LAMBDA e :
            gaussian(e.angleError.H, r, 0, Mul(e.angularErrorScale, 500))),
        "spinError", LAMBDA e :
            gaussian(e.elevationError.H, r, 0, Mul(1000 - quality, 200))),
        "offsetX", LAMBDA e : gaussian(e.spinError.H, r, 0, 0)),
        "offsetY", LAMBDA e : gaussian(e.offsetX.H, r, 0, 0)),
        LAMBDA e :
      [H |-> e.offsetY.H,
       velocity |->
          V3(MulDiv(intendedVelocity.x, cosMicro(e.angleError.v), 1000000)
               - MulDiv(intendedVelocity.y, sinMicro(e.angleError.v),
                        1000000),
             MulDiv(intendedVelocity.x, sinMicro(e.angleError.v), 1000000)
               + MulDiv(intendedVelocity.y, cosMicro(e.angleError.v),
                        1000000),
             MulDiv(intendedVelocity.z, cosMicro(e.elevationError.v),
                    1000000)
               + MulDiv(mag3(intendedVelocity.x, intendedVelocity.y, 0),
                        sinMicro(e.elevationError.v), 1000000)),
       spin |-> V3(Mul(intendedSpin.x, 1000 + e.spinError.v),
                   Mul(intendedSpin.y, 1000 + e.spinError.v),
                   Mul(intendedSpin.z, 1000 + e.spinError.v))])

----------------------------------------------------------------------------
(* The physics engine: executeShot, executeServe                            *)

\* powerToSpeed * (powerCeiling / 100) * (bladeSpeed / 100)
\*   * (rubber.speed / 100) * speedGeneration
effectiveSpeedCeiling(powerCeiling, bladeSpeed, rubber, config) ==
    Mul(MulDiv(MulDiv(MulDiv(config.powerToSpeed, powerCeiling, 100),
                      bladeSpeed, 100), rubber.speed, 100),
        config.rubberTypeModifiers[rubber.type].speedGeneration)

\* spinToRevs * (spinCeiling / 100) * (rubber.spin / 100) * spinGeneration
effectiveSpinCeiling(spinCeiling, rubber, config) ==
    Mul(MulDiv(MulDiv(config.spinToRevs, spinCeiling, 100), rubber.spin, 100),
        config.rubberTypeModifiers[rubber.type].spinGeneration)

\* the decomposition without the normalisation
computeSpinVectorRaw(magnitude, direction) ==
    V3(Mul(direction.sidespin, magnitude), Mul(direction.topspin, magnitude), 0)

\* computeSpinVector(magnitude, direction): the components (sidespin,
\* topspin, 0) scaled to the magnitude
computeSpinVector(magnitude, direction) ==
    Return(With(With(With([magnitude |-> magnitude],
        "topspin", LAMBDA e : Mul(direction.topspin, magnitude)),
        "sidespin", LAMBDA e : Mul(direction.sidespin, magnitude)),
        "total", LAMBDA e : mag3(e.topspin, e.sidespin, 0)),
        LAMBDA e :
            IF e.total > 0
            THEN V3(Quot(e.sidespin, magnitude, e.total),
                    Quot(e.topspin, magnitude, e.total), 0)
            ELSE V3(0, 0, 0))

\* executeShot(intention, capabilities, equipment, arrival)
executeShot(intention, capabilities, equipment, arrival, config, H, r) ==
    Return(With(With(With(With(With(With(With([H |-> H],
        "sideCaps", LAMBDA e : capabilities[intention.side]),
        "rubber", LAMBDA e :
            IF intention.side = "forehand" THEN equipment.forehandRubber
            ELSE equipment.backhandRubber),
        "speed", LAMBDA e :
            Mul(intention.power,
                effectiveSpeedCeiling(e.sideCaps.powerCeiling,
                                      equipment.blade.speed, e.rubber,
                                      config))),
        "spinMag", LAMBDA e :
            Mul(intention.spinIntensity,
                effectiveSpinCeiling(e.sideCaps.spinCeiling, e.rubber,
                                     config))),
        "quality", LAMBDA e :
            computeExecutionQuality(e.sideCaps.consistency,
                arrival.positionalDeficit, arrival.timeAvailable,
                Max2(intention.power, intention.spinIntensity), config)),
        "error", LAMBDA e :
            applyError(computeVelocity(arrival.ballPosition,
                                       intention.targetPosition,
                                       intention.netClearance, e.speed,
                                       config),
                       computeSpinVector(e.spinMag, intention.spinDirection),
                       e.quality, e.sideCaps.accuracy, config, e.H, r)),
        "trajectory", LAMBDA e :
            simulateFlight(arrival.ballPosition, e.error.velocity,
                           e.error.spin, config, e.error.H, r)),
        LAMBDA e :
      [H |-> e.trajectory.H,
       v |-> [startPosition |-> arrival.ballPosition,
              velocity |-> e.error.velocity,
              spin |-> e.error.spin,
              apex |-> e.trajectory.result.apex,
              landingPosition |-> e.trajectory.result.landingPosition,
              netContact |-> e.trajectory.result.netContact,
              edgeContact |-> e.trajectory.result.edgeContact,
              executionQuality |-> e.quality]])

\* a serve launched at the depth the intention names
executeServeAimed(intention, capabilities, equipment, serviceSkill, config, H, r) ==
    Return(With(With(With(With(With(With(With(With(With([H |-> H],
        "sideCaps", LAMBDA e : capabilities[intention.side]),
        "rubber", LAMBDA e :
            IF intention.side = "forehand" THEN equipment.forehandRubber
            ELSE equipment.backhandRubber),
        "speed", LAMBDA e :
            Mul(intention.power,
                effectiveSpeedCeiling(e.sideCaps.powerCeiling,
                                      equipment.blade.speed, e.rubber,
                                      config))),
        "spinMag", LAMBDA e :
            Mul(intention.spinIntensity,
                effectiveSpinCeiling(e.sideCaps.spinCeiling, e.rubber,
                                     config))),
        "quality", LAMBDA e :
            computeServeQuality(serviceSkill, e.sideCaps.consistency,
                Max2(intention.power, intention.spinIntensity), config)),
        "startPos", LAMBDA e :
            V3(0, config.tableLength \div 2 + config.serveStartDepth,
               config.serveContactHeight)),
        "firstBounceTarget", LAMBDA e :
            V2(Mul(intention.targetPosition.x, 300),
               intention.targetPosition.y)),
        "error", LAMBDA e :
            applyError(computeVelocity(e.startPos, e.firstBounceTarget,
                                       intention.netClearance, e.speed,
                                       config),
                       computeSpinVector(e.spinMag, intention.spinDirection),
                       e.quality, e.sideCaps.accuracy, config, e.H, r)),
        "trajectory", LAMBDA e :
            simulateServe(e.startPos, e.error.velocity, e.error.spin, config,
                          e.error.H, r)),
        LAMBDA e :
      [H |-> e.trajectory.H,
       v |-> [startPosition |-> e.startPos,
              velocity |-> e.error.velocity,
              spin |-> e.error.spin,
              apex |-> e.trajectory.result.apex,
              landingPosition |-> e.trajectory.result.landingPosition,
              netContact |-> e.trajectory.result.netContact,
              edgeContact |-> e.trajectory.result.edgeContact,
              executionQuality |-> e.quality]])

\* executeServe(intention, capabilities, equipment, serviceSkill): the serve
\* starts behind the +Y end line and is aimed at a first bounce in the
\* middle of the server's half
executeServe(intention, capabilities, equipment, serviceSkill, config, H, r) ==
    Return(With(With(With(With(With(With(With(With(With([H |-> H],
        "sideCaps", LAMBDA e : capabilities[intention.side]),
        "rubber", LAMBDA e :
            IF intention.side = "forehand" THEN equipment.forehandRubber
            ELSE equipment.backhandRubber),
        "speed", LAMBDA e :
            Mul(intention.power,
                effectiveSpeedCeiling(e.sideCaps.powerCeiling,
                                      equipment.blade.speed, e.rubber,
                                      config))),
        "spinMag", LAMBDA e :
            Mul(intention.spinIntensity,
                effectiveSpinCeiling(e.sideCaps.spinCeiling, e.rubber,
                                     config))),
        "quality", LAMBDA e :
            computeServeQuality(serviceSkill, e.sideCaps.consistency,
                Max2(intention.power, intention.spinIntensity), config)),
        "startPos", LAMBDA e :
            V3(0, config.tableLength \div 2 + config.serveStartDepth,
               config.serveContactHeight)),
        "firstBounceTarget", LAMBDA e :
            V2(Mul(intention.targetPosition.x, 300),
               (config.tableLength \div 2) \div 2)),
        "error", LAMBDA e :
            applyError(computeVelocity(e.startPos, e.firstBounceTarget,
                                       intention.netClearance, e.speed,
                                       config),
                       computeSpinVector(e.spinMag, intention.spinDirection),
                       e.quality, e.sideCaps.accuracy, config, e.H, r)),
        "trajectory", LAMBDA e :
            simulateServe(e.startPos, e.error.velocity, e.error.spin, config,
                          e.error.H, r)),
        LAMBDA e :
      [H |-> e.trajectory.H,
       v |-> [startPosition |-> e.startPos,
              velocity |-> e.error.velocity,
              spin |-> e.error.spin,
              apex |-> e.trajectory.result.apex,
              landingPosition |-> e.trajectory.result.landingPosition,
              netContact |-> e.trajectory.result.netContact,
              edgeContact |-> e.trajectory.result.edgeContact,
              executionQuality |-> e.quality]])

----------------------------------------------------------------------------
(* spin-read.ts.  The configuration values it reads (readDifficultyScale,   *)
(* readAccuracyBase, readAccuracySpinReadScale, readDifficultyPenalty,      *)
(* minReadAccuracy, spinNoiseStddev, spinMisreadEpsilon) are given by the   *)
(* caller; accuracies and scales are milli, spins milli rev/s.              *)

\* a difficulty that adds the attribute and the effort instead of
\* multiplying them
computeReadDifficultyAdditive(senderDeception, deceptionEffort, config) ==
    clamp(Mul((senderDeception * 10 + deceptionEffort) \div 2,
              config.readDifficultyScale), 0, 1000)

\* clamp((senderDeception / 100) * deceptionEffort * scale, 0, 1)
computeReadDifficulty(senderDeception, deceptionEffort, config) ==
    clamp(Mul(Mul(senderDeception * 10, deceptionEffort),
              config.readDifficultyScale), 0, 1000)

\* clamp(base + spinRead / 100 * scale - difficulty * penalty, floor, 1)
computeReadAccuracy(receiverSpinRead, readDifficulty, config) ==
    clamp(config.readAccuracyBase
            + Mul(receiverSpinRead * 10, config.readAccuracySpinReadScale)
            - Mul(readDifficulty, config.readDifficultyPenalty),
          config.minReadAccuracy, 1000)

\* noise drawn only for the axes about which the ball spins
computePerceivedSpinPerAxis(actualSpin, readAccuracy, H, r, config) ==
    IF v3mag(actualSpin) < config.spinMisreadEpsilon
    THEN [H |-> H, perceivedSpin |-> actualSpin, misread |-> 0]
    ELSE Return(With(With(With(With(With([H |-> H],
        "spinMag", LAMBDA e : v3mag(actualSpin)),
        "noiseScale", LAMBDA e :
            Mul(Mul(1000 - readAccuracy, e.spinMag), config.spinNoiseStddev)),
        "noiseX", LAMBDA e :
            IF actualSpin.x = 0 THEN [H |-> e.H, v |-> 0]
            ELSE gaussian(e.H, r, 0, e.noiseScale)),
        "noiseY", LAMBDA e :
            IF actualSpin.y = 0 THEN [H |-> e.noiseX.H, v |-> 0]
            ELSE gaussian(e.noiseX.H, r, 0, e.noiseScale)),
        "noiseZ", LAMBDA e :
            IF actualSpin.z = 0 THEN [H |-> e.noiseY.H, v |-> 0]
            ELSE gaussian(e.noiseY.H, r, 0, e.noiseScale)),
        LAMBDA e :
            [H |-> e.noiseZ.H,
             perceivedSpin |-> V3(actualSpin.x + e.noiseX.v,
                                  actualSpin.y + e.noiseY.v,
                                  actualSpin.z + e.noiseZ.v),
             misread |-> clamp(Quot(mag3(e.noiseX.v, e.noiseY.v, e.noiseZ.v),
                                    1000, e.spinMag), 0, 1000)])

\* computePerceivedSpin(actualSpin, readAccuracy, rng, config)
computePerceivedSpin(actualSpin, readAccuracy, H, r, config) ==
    IF v3mag(actualSpin) < config.spinMisreadEpsilon
    THEN [H |-> H, perceivedSpin |-> actualSpin, misread |-> 0]
    ELSE Return(With(With(With(With(With([H |-> H],
        "spinMag", LAMBDA e : v3mag(actualSpin)),
        "noiseScale", LAMBDA e :
            Mul(Mul(1000 - readAccuracy, e.spinMag), config.spinNoiseStddev)),
        "noiseX", LAMBDA e : gaussian(e.H, r, 0, e.noiseScale)),
        "noiseY", LAMBDA e : gaussian(e.noiseX.H, r, 0, e.noiseScale)),
        "noiseZ", LAMBDA e : gaussian(e.noiseY.H, r, 0, e.noiseScale)),
        LAMBDA e :
            [H |-> e.noiseZ.H,
             perceivedSpin |-> V3(actualSpin.x + e.noiseX.v,
                                  actualSpin.y + e.noiseY.v,
                                  actualSpin.z + e.noiseZ.v),
             misread |-> clamp(Quot(mag3(e.noiseX.v, e.noiseY.v, e.noiseZ.v),
                                    1000, e.spinMag), 0, 1000)])

----------------------------------------------------------------------------
(* player/constants.ts.  Fractions and scales are milli, lengths milli cm,  *)
(* attributes and tendencies integers 0..100.  The spin-read and stamina    *)
(* values are not among the defaults: a caller passes them as overrides.    *)

DEFAULT_PLAYER_ENGINE_CONFIG ==
    [ tendencyVariationStddev |-> 80,
      minNetClearance |-> 1000, maxNetClearance |-> 25000,
      tableHalfLength |-> 137000, tableHalfWidth |-> 76250,
      safeMargin |-> 15000, minEdgeMargin |-> 3000,
      opponentAvoidanceWeight |-> 600,
      shortDepthFraction |-> 200, deepDepthFraction |-> 950,
      readyPositionDepth |-> 160000, recoveryAnticipationFraction |-> 200,
      pressureRiskAdjustment |-> 150, mentalPressureThreshold |-> 50,
      safetyDeficitThreshold |-> 500, deficitRiskReduction |-> 500,
      strongSidePreferenceWeight |-> 300,
      riskAmplification |-> 300,
      maxServeNetClearance |-> 8000, serveWidthRange |-> 800,
      deceptionBaseScale |-> 500, deceptionRiskScale |-> 500,
      deceptionNoiseStddev |-> 50,
      topspinNoiseStddev |-> 100, sidespinNoiseStddev |-> 700,
      serveTopspinVariationScale |-> 500, serveSidespinVariationScale |-> 300,
      netClearanceRiskReduction |-> 300,
      shotClearanceNoiseStddev |-> 1000, serveClearanceNoiseStddev |-> 500,
      targetWidthNoiseScale |-> 300, targetJitterStddev |-> 3000,
      serveWidthNoiseScale |-> 500, serveJitterStddev |-> 2000 ]

\* mergePlayerConfig: { ...DEFAULT_PLAYER_ENGINE_CONFIG, ...overrides }
mergePlayerConfig(overrides) ==
    [k \in DOMAIN DEFAULT_PLAYER_ENGINE_CONFIG \cup DOMAIN overrides |->
        IF k \in DOMAIN overrides THEN overrides[k]
        ELSE DEFAULT_PLAYER_ENGINE_CONFIG[k]]

----------------------------------------------------------------------------
(* tendency-mapper.ts.  Every operation that draws returns [H, v]: the     *)
(* generators after the call and the value.                                 *)

\* mapTendency(tendency, rng, config)
mapTendency(tendency, H, r, config) ==
    Return(With([H |-> H],
        "noise", LAMBDA e :
            gaussian(e.H, r, 0, config.tendencyVariationStddev)),
        LAMBDA e :
            [H |-> e.noise.H,
             v |-> clamp(tendency * 10 + e.noise.v, 0, 1000)])

\* the risk-amplified mapping without its final clamp
mapTendencyWithRiskUnclamped(tendency, riskFactor, H, r, config) ==
    Return(With([H |-> H],
        "noise", LAMBDA e :
            gaussian(e.H, r, 0, config.tendencyVariationStddev)),
        LAMBDA e :
            [H |-> e.noise.H,
             v |-> tendency * 10
                     + Mul(Mul(tendency * 10 - 500, riskFactor),
                           config.riskAmplification)
                     + e.noise.v])

\* mapTendencyWithRisk(tendency, riskFactor, rng, config)
mapTendencyWithRisk(tendency, riskFactor, H, r, config) ==
    Return(With([H |-> H],
        "noise", LAMBDA e :
            gaussian(e.H, r, 0, config.tendencyVariationStddev)),
        LAMBDA e :
            [H |-> e.noise.H,
             v |-> clamp(tendency * 10
                           + Mul(Mul(tendency * 10 - 500, riskFactor),
                                 config.riskAmplification)
                           + e.noise.v, 0, 1000)])

\* adjustRiskForPressure(baseRisk, matchState, mental, config): unchanged
\* without game or match point; otherwise shifted by the maximum adjustment
\* scaled by the distance of mental from the neutral threshold, and clamped
adjustRiskForPressure(baseRisk, matchState, mental, config) ==
    IF ~(matchState.isGamePoint \/ matchState.isMatchPoint) THEN baseRisk
    ELSE clamp(baseRisk
                 - Mul(config.pressureRiskAdjustment,
                       (mental - config.mentalPressureThreshold) * 10),
               0, 1000)

\* computeDeceptionEffort(deception, riskFactor, rng, config): the
\* attribute scaled by the base scale plus the risk scale per unit of risk,
\* with Gaussian noise, clamped
computeDeceptionEffort(deception, riskFactor, H, r, config) ==
    Return(With([H |-> H],
        "noise", LAMBDA e : gaussian(e.H, r, 0, config.deceptionNoiseStddev)),
        LAMBDA e :
            [H |-> e.noise.H,
             v |-> clamp(Mul(deception * 10,
                             config.deceptionBaseScale
                               + Mul(riskFactor, config.deceptionRiskScale))
                           + e.noise.v, 0, 1000)])

----------------------------------------------------------------------------
(* side-selection.ts                                                        *)

\* (power + spin + accuracy + consistency) / 4 * prefWeight
\*   + rng.next() * (1 - prefWeight) * 100, in micro
sideScore(caps, prefWeight, n) ==
    (caps.powerCeiling + caps.spinCeiling + caps.accuracy + caps.consistency)
        * 250 * prefWeight
    + MulDiv(n.v[1] * (1000 - prefWeight), 100000, 65536)

\* a tie given to the backhand
selectSideStrict(availableSides, capabilities, H, r, config) ==
    IF Len(availableSides) = 1 THEN [H |-> H, v |-> availableSides[1]]
    ELSE Return(With(With([H |-> H],
        "fh", LAMBDA e : next(e.H, r)),
        "bh", LAMBDA e : next(e.fh.H, r)),
        LAMBDA e :
            [H |-> e.bh.H,
             v |-> IF sideScore(capabilities.forehand,
                                config.strongSidePreferenceWeight, e.fh)
                      > sideScore(capabilities.backhand,
                                  config.strongSidePreferenceWeight, e.bh)
                   THEN "forehand" ELSE "backhand"])

\* selectSide(availableSides, capabilities, rng, config)
selectSide(availableSides, capabilities, H, r, config) ==
    IF Len(availableSides) = 1 THEN [H |-> H, v |-> availableSides[1]]
    ELSE Return(With(With([H |-> H],
        "fh", LAMBDA e : next(e.H, r)),
        "bh", LAMBDA e : next(e.fh.H, r)),
        LAMBDA e :
            [H |-> e.bh.H,
             v |-> IF sideScore(capabilities.forehand,
                                config.strongSidePreferenceWeight, e.fh)
                      >= sideScore(capabilities.backhand,
                                   config.strongSidePreferenceWeight, e.bh)
                   THEN "forehand" ELSE "backhand"])

----------------------------------------------------------------------------
(* target-placement.ts                                                      *)

\* the target clamped to the whole table instead of the opposite half
computeTargetPositionWholeTable(depthBias, riskFactor, opponentPosition, playerY, H, r, config) ==
    Return(With(With(With(With(With(With([H |-> H],
        "targetSign", LAMBDA e : IF playerY >= 0 THEN -1 ELSE 1),
        "depthMag", LAMBDA e :
            Mul(config.shortDepthFraction, config.tableHalfLength)
            + Mul(depthBias,
                  Mul(config.deepDepthFraction, config.tableHalfLength)
                    - Mul(config.shortDepthFraction, config.tableHalfLength))),
        "maxX", LAMBDA e :
            config.tableHalfWidth
            - (config.safeMargin
                 - Mul(riskFactor, config.safeMargin - config.minEdgeMargin))),
        "randomX", LAMBDA e :
            gaussian(e.H, r, 0, Mul(e.maxX, config.targetWidthNoiseScale))),
        "jitterX", LAMBDA e :
            gaussian(e.randomX.H, r, 0, config.targetJitterStddev)),
        "jitterY", LAMBDA e :
            gaussian(e.jitterX.H, r, 0, config.targetJitterStddev)),
        LAMBDA e :
            [H |-> e.jitterY.H,
             v |-> V2(clamp((IF opponentPosition.x >= 0 THEN -1 ELSE 1)
                                * Mul(e.maxX, config.opponentAvoidanceWeight)
                              + e.randomX.v + e.jitterX.v,
                            -config.tableHalfWidth, config.tableHalfWidth),
                      clamp(e.targetSign * e.depthMag
                              + e.targetSign * e.jitterY.v,
                            -config.tableHalfLength, config.tableHalfLength))])

\* computeTargetPosition(depthBias, riskFactor, opponentPosition, playerY,
\* rng, config)
computeTargetPosition(depthBias, riskFactor, opponentPosition, playerY, H, r, config) ==
    Return(With(With(With(With(With(With([H |-> H],
        "targetSign", LAMBDA e : IF playerY >= 0 THEN -1 ELSE 1),
        "depthMag", LAMBDA e :
            Mul(config.shortDepthFraction, config.tableHalfLength)
            + Mul(depthBias,
                  Mul(config.deepDepthFraction, config.tableHalfLength)
                    - Mul(config.shortDepthFraction, config.tableHalfLength))),
        "maxX", LAMBDA e :
            config.tableHalfWidth
            - (config.safeMargin
                 - Mul(riskFactor, config.safeMargin - config.minEdgeMargin))),
        "randomX", LAMBDA e :
            gaussian(e.H, r, 0, Mul(e.maxX, config.targetWidthNoiseScale))),
        "jitterX", LAMBDA e :
            gaussian(e.randomX.H, r, 0, config.targetJitterStddev)),
        "jitterY", LAMBDA e :
            gaussian(e.jitterX.H, r, 0, config.targetJitterStddev)),
        LAMBDA e :
            [H |-> e.jitterY.H,
             v |-> V2(clamp((IF opponentPosition.x >= 0 THEN -1 ELSE 1)
                                * Mul(e.maxX, config.opponentAvoidanceWeight)
                              + e.randomX.v + e.jitterX.v,
                            -config.tableHalfWidth, config.tableHalfWidth),
                      IF e.targetSign < 0
                      THEN clamp(e.targetSign * e.depthMag
                                   + e.targetSign * e.jitterY.v,
                                 -config.tableHalfLength, 0)
                      ELSE clamp(e.targetSign * e.depthMag
                                   + e.targetSign * e.jitterY.v,
                                 0, config.tableHalfLength))])

\* computeServeTarget(lengthTendency, riskFactor, rng, config): the server
\* is at +Y, the target on the -Y half
computeServeTarget(lengthTendency, riskFactor, H, r, config) ==
    Return(With(With(With(With(With([H |-> H],
        "depthMag", LAMBDA e :
            Mul(config.shortDepthFraction, config.tableHalfLength)
            + Mul(lengthTendency,
                  Mul(config.deepDepthFraction, config.tableHalfLength)
                    - Mul(config.shortDepthFraction, config.tableHalfLength))),
        "effectiveMaxX", LAMBDA e :
            Min2(Mul(config.tableHalfWidth, config.serveWidthRange),
                 config.tableHalfWidth
                   - (config.safeMargin
                        - Mul(riskFactor,
                              config.safeMargin - config.minEdgeMargin)))),
        "randomX", LAMBDA e :
            gaussian(e.H, r, 0,
                     Mul(e.effectiveMaxX, config.serveWidthNoiseScale))),
        "jitterX", LAMBDA e :
            gaussian(e.randomX.H, r, 0, config.serveJitterStddev)),
        "jitterY", LAMBDA e :
            gaussian(e.jitterX.H, r, 0, config.serveJitterStddev)),
        LAMBDA e :
            [H |-> e.jitterY.H,
             v |-> V2(clamp(e.randomX.v + e.jitterX.v,
                            -config.tableHalfWidth, config.tableHalfWidth),
                      clamp(-e.depthMag + e.jitterY.v,
                            -config.tableHalfLength, 0))])

----------------------------------------------------------------------------
(* shot-decision.ts: decideShot                                             *)

\* the positional safety left out
effectiveRiskUnsafe(pressured, positionalDeficit, config) ==
    clamp(pressured, 0, 1000)

\* Step 1 of decideShot after the pressure adjustment: past the safety
\* threshold the risk is scaled down with the excess deficit, then clamped
effectiveRiskOf(pressured, positionalDeficit, config) ==
    clamp(IF positionalDeficit > config.safetyDeficitThreshold
          THEN Mul(pressured,
                   1000 - Mul(Quot(positionalDeficit
                                     - config.safetyDeficitThreshold,
                                   1000,
                                   1000 - config.safetyDeficitThreshold),
                              config.deficitRiskReduction))
          ELSE pressured, 0, 1000)

\* decideShot(context, rng, config): Steps 1 to 9 in the order of the source
decideShot(ctx, H, r, config) ==
    Return(With(With(With(With(With(With(With(With(With(With(With(With(
        [H |-> H],
        "mapped", LAMBDA e :
            mapTendency(ctx.player.strokeTendencies.riskTolerance, e.H, r,
                        config)),
        "pressured", LAMBDA e :
            adjustRiskForPressure(e.mapped.v, ctx.matchState,
                                  ctx.player.attributes.mental, config)),
        "effectiveRisk", LAMBDA e :
            effectiveRiskOf(e.pressured, ctx.arrival.positionalDeficit,
                            config)),
        "side", LAMBDA e :
            selectSide(ctx.arrival.availableSides,
                       ctx.player.strokeCapabilities, e.mapped.H, r, config)),
        "power", LAMBDA e :
            mapTendencyWithRisk(ctx.player.strokeTendencies.powerBias,
                                e.effectiveRisk, e.side.H, r, config)),
        "spinIntensity", LAMBDA e :
            mapTendencyWithRisk(ctx.player.strokeTendencies.spinIntensity,
                                e.effectiveRisk, e.power.H, r, config)),
        "topspinNoise", LAMBDA e : gaussian(e.spinIntensity.H, r, 0, 100)),
        "sidespinNoise", LAMBDA e : gaussian(e.topspinNoise.H, r, 0, 700)),
        "depthMapped", LAMBDA e :
            mapTendency(ctx.player.strokeTendencies.depthBias,
                        e.sidespinNoise.H, r, config)),
        "targetPosition", LAMBDA e :
            computeTargetPosition(e.depthMapped.v, e.effectiveRisk,
                                  ctx.opponentPosition, ctx.playerPosition.y,
                                  e.depthMapped.H, r, config)),
        "clearanceNoise", LAMBDA e :
            gaussian(e.targetPosition.H, r, 0, 1000)),
        "deceptionEffort", LAMBDA e :
            computeDeceptionEffort(ctx.player.attributes.deception,
                                   e.effectiveRisk, e.clearanceNoise.H, r,
                                   config)),
        LAMBDA e :
      [H |-> e.deceptionEffort.H,
       v |-> [side |-> e.side.v,
              power |-> e.power.v,
              spinIntensity |-> e.spinIntensity.v,
              spinDirection |->
                 [topspin |->
                     clamp((ctx.player.strokeTendencies.topspinBias - 50) * 20
                             + e.topspinNoise.v, -1000, 1000),
                  sidespin |->
                     clamp(Mul(ctx.player.strokeTendencies.sidespinUsage * 10,
                               e.sidespinNoise.v), -1000, 1000)],
              targetPosition |-> e.targetPosition.v,
              netClearance |->
                 Max2(config.minNetClearance,
                      Mul(config.minNetClearance
                            + Mul(ctx.player.strokeTendencies.netClearance * 10,
                                  config.maxNetClearance
                                    - config.minNetClearance),
                          1000 - Mul(e.effectiveRisk, 300))
                        + e.clearanceNoise.v),
              deceptionEffort |-> e.deceptionEffort.v,
              recoveryTarget |->
                 V2(-Mul(e.targetPosition.v.x,
                         config.recoveryAnticipationFraction),
                    (IF ctx.playerPosition.y >= 0 THEN 1 ELSE -1)
                       * config.readyPositionDepth)]])

----------------------------------------------------------------------------
(* serve-decision.ts: decideServe                                           *)

\* decideServe(context, rng, config): Steps 1 to 8 in the order of the source
decideServe(ctx, H, r, config) ==
    Return(With(With(With(With(With(With(With(With(With(With(With(With(
        [H |-> H],
        "mapped", LAMBDA e :
            mapTendency(ctx.player.serveTendencies.risk, e.H, r, config)),
        "effectiveRisk", LAMBDA e :
            adjustRiskForPressure(e.mapped.v, ctx.matchState,
                                  ctx.player.attributes.mental, config)),
        "side", LAMBDA e :
            selectSide(<<"forehand", "backhand">>,
                       ctx.player.strokeCapabilities, e.mapped.H, r, config)),
        "power", LAMBDA e :
            mapTendencyWithRisk(ctx.player.serveTendencies.speed,
                                e.effectiveRisk, e.side.H, r, config)),
        "spinIntensity", LAMBDA e :
            mapTendencyWithRisk(ctx.player.serveTendencies.spinAmount,
                                e.effectiveRisk, e.power.H, r, config)),
        "topspinNoise", LAMBDA e :
            gaussian(e.spinIntensity.H, r, 0,
                     Mul(ctx.player.serveTendencies.spinVariation * 10,
                         config.serveTopspinVariationScale))),
        "sidespinSign", LAMBDA e : next(e.topspinNoise.H, r)),
        "sidespinNoise", LAMBDA e :
            gaussian(e.sidespinSign.H, r, 0,
                     Mul(ctx.player.serveTendencies.spinVariation * 10,
                         config.serveSidespinVariationScale))),
        "lengthMapped", LAMBDA e :
            mapTendency(ctx.player.serveTendencies.length, e.sidespinNoise.H,
                        r, config)),
        "targetPosition", LAMBDA e :
            computeServeTarget(e.lengthMapped.v, e.effectiveRisk,
                               e.lengthMapped.H, r, config)),
        "clearanceNoise", LAMBDA e :
            gaussian(e.targetPosition.H, r, 0,
                     config.serveClearanceNoiseStddev)),
        "deceptionEffort", LAMBDA e :
            computeDeceptionEffort(ctx.player.attributes.deception,
                                   e.effectiveRisk, e.clearanceNoise.H, r,
                                   config)),
        LAMBDA e :
      [H |-> e.deceptionEffort.H,
       v |-> [side |-> e.side.v,
              power |-> e.power.v,
              spinIntensity |-> e.spinIntensity.v,
              spinDirection |->
                 [topspin |->
                     clamp((50 - ctx.player.serveTendencies.backspinBias) * 20
                             + e.topspinNoise.v, -1000, 1000),
                  sidespin |->
                     clamp(ctx.player.serveTendencies.sidespinBias * 10
                             * (IF aboveHalf(e.sidespinSign.v) THEN 1 ELSE -1)
                             + e.sidespinNoise.v, -1000, 1000)],
              targetPosition |-> e.targetPosition.v,
              netClearance |->
                 Max2(config.minNetClearance,
                      config.minNetClearance
                        + Mul(1000 - e.effectiveRisk,
                              config.maxServeNetClearance
                                - config.minNetClearance)
                        + e.clearanceNoise.v),
              deceptionEffort |-> e.deceptionEffort.v]])

----------------------------------------------------------------------------
(* DefaultPlayerEngine (index.ts).  An engine is [lastMisread, fatigue];   *)
(* its player and configuration are passed with every call.  lastMisread is *)
(* milli, fatigue micro (the product of two milli factors).                 *)

NewEngine == [lastMisread |-> 0, fatigue |-> 0]

\* an engine whose decision is made with the power tendency lowered by the
\* fatigue accumulated before the call
engineDecideShotTired(engine, ctx, H, r, config) ==
    Return(With(With(With(With(With(
        [H |-> H],
        "deceptionEffort", LAMBDA e :
            IF Len(ctx.rallyHistory) > 0
                 /\ "deceptionEffort"
                       \in DOMAIN ctx.rallyHistory[Len(ctx.rallyHistory)]
            THEN ctx.rallyHistory[Len(ctx.rallyHistory)].deceptionEffort
            ELSE 0),
        "readDifficulty", LAMBDA e :
            computeReadDifficulty(ctx.opponent.attributes.deception,
                                  e.deceptionEffort, config)),
        "readAccuracy", LAMBDA e :
            computeReadAccuracy(ctx.player.attributes.spinRead,
                                e.readDifficulty, config)),
        "read", LAMBDA e :
            computePerceivedSpin(ctx.arrival.ballSpin, e.readAccuracy, e.H, r,
                                 config)),
        "drain", LAMBDA e :
            (config.staminaDrainBase
               + Mul(ctx.arrival.positionalDeficit,
                     config.staminaDrainDeficitScale))
              * (1000 - Mul(ctx.player.attributes.stamina * 10, 800))),
        LAMBDA e :
      [engine |-> [lastMisread |-> e.read.misread,
                   fatigue |-> clamp(engine.fatigue + e.drain, 0, 1000000)],
       out |-> decideShot(
                  [ctx EXCEPT !.player.strokeTendencies.powerBias =
                      Mul(@, 1000 - engine.fatigue \div 1000)],
                  e.read.H, r, config)])

\* DefaultPlayerEngine.decideShot(context): the spin read, the stamina
\* drain (staminaDrainBase + positionalDeficit * staminaDrainDeficitScale)
\* * (1 - stamina / 100 * 0.8), then decideShot
engineDecideShot(engine, ctx, H, r, config) ==
    Return(With(With(With(With(With(
        [H |-> H],
        "deceptionEffort", LAMBDA e :
            IF Len(ctx.rallyHistory) > 0
                 /\ "deceptionEffort"
                       \in DOMAIN ctx.rallyHistory[Len(ctx.rallyHistory)]
            THEN ctx.rallyHistory[Len(ctx.rallyHistory)].deceptionEffort
            ELSE 0),
        "readDifficulty", LAMBDA e :
            computeReadDifficulty(ctx.opponent.attributes.deception,
                                  e.deceptionEffort, config)),
        "readAccuracy", LAMBDA e :
            computeReadAccuracy(ctx.player.attributes.spinRead,
                                e.readDifficulty, config)),
        "read", LAMBDA e :
            computePerceivedSpin(ctx.arrival.ballSpin, e.readAccuracy, e.H, r,
                                 config)),
        "drain", LAMBDA e :
            (config.staminaDrainBase
               + Mul(ctx.arrival.positionalDeficit,
                     config.staminaDrainDeficitScale))
              * (1000 - Mul(ctx.player.attributes.stamina * 10, 800))),
        LAMBDA e :
      [engine |-> [lastMisread |-> e.read.misread,
                   fatigue |-> clamp(engine.fatigue + e.drain, 0, 1000000)],
       out |-> decideShot(ctx, e.read.H, r, config)])

\* DefaultPlayerEngine.decideServe(context)
engineDecideServe(engine, ctx, H, r, config) ==
    [engine |-> engine, out |-> decideServe(ctx, H, r, config)]

\* a game end that resets the fatigue in full
onGameEndFullReset(engine, config) == [engine EXCEPT !.fatigue = 0]

\* onGameEnd(): fatigue * (1 - staminaGameRecovery), clamped
onGameEnd(engine, config) ==
    [engine EXCEPT !.fatigue =
        clamp(Mul(@, 1000 - config.staminaGameRecovery), 0, 1000000)]

\* onTimeout(): fatigue * (1 - staminaTimeoutRecovery), clamped
onTimeout(engine, config) ==
    [engine EXCEPT !.fatigue =
        clamp(Mul(@, 1000 - config.staminaTimeoutRecovery), 0, 1000000)]

\* onPointEnd(result): nothing
onPointEnd(engine) == engine

getLastMisread(engine) == engine.lastMisread

getStaminaFactor(engine) == clamp(1000000 - engine.fatigue, 0, 1000000)

----------------------------------------------------------------------------
(* SpecRng: two sources built from one seed, each called independently      *)

MaxCalls == 3

Idle == <<>>

InitRng ==
    /\ \E seed \in {42, 123, 999} : rngs = [r \in Sources |-> createRng(seed)]
    /\ calls = [r \in Sources |-> <<>>]
    /\ outs = [r \in Sources |-> <<>>]
    /\ fl = Idle /\ sv = Idle /\ calc = Idle /\ sims = Idle

CallNext(r) ==
    /\ Len(calls[r]) < MaxCalls
    /\ LET res == next(rngs, r)
       IN  /\ rngs' = res.H
           /\ calls' = [calls EXCEPT ![r] = Append(@, <<"next">>)]
           /\ outs' = [outs EXCEPT ![r] = Append(@, res.v)]
    /\ UNCHANGED <<fl, sv, calc, sims>>

CallGaussian(r, arg) ==
    /\ Len(calls[r]) < MaxCalls
    /\ LET res == gaussian(rngs, r, arg[1], arg[2])
       IN  /\ rngs' = res.H
           /\ calls' = [calls EXCEPT ![r] = Append(@, <<"gaussian", arg[1], arg[2]>>)]
           /\ outs' = [outs EXCEPT ![r] = Append(@, res.v)]
    /\ UNCHANGED <<fl, sv, calc, sims>>

NextRng ==
    \/ \E r \in Sources : CallNext(r)
    \/ \E r \in Sources, arg \in {<<0, 1000>>, <<500, 80>>} :
          CallGaussian(r, arg)

SpecRng == InitRng /\ [][NextRng]_vars

\* C1: two sources created from the same seed return the same values for the
\* same sequence of next() and gaussian(mean, stddev) calls, whatever the
\* interleaving of the two kinds of call: on every common prefix of the two
\* call sequences the returned values agree.
C1_SameSeedSameValues ==
    \A k \in 0..Min2(Len(calls[1]), Len(calls[2])) :
        SubSeq(calls[1], 1, k) = SubSeq(calls[2], 1, k)
            => SubSeq(outs[1], 1, k) = SubSeq(outs[2], 1, k)

\* C1 witness: both sources have answered gaussian, next, gaussian, the
\* last gaussian from the cached spare, and the values agree
C1_Witness ==
    /\ Len(calls[1]) = 3 /\ calls[1] = calls[2]
    /\ calls[1][1][1] = "gaussian" /\ calls[1][2][1] = "next"
    /\ calls[1][3][1] = "gaussian"
    /\ ~rngs[1].hasSpare /\ ~rngs[2].hasSpare
    /\ outs[1] = outs[2]


\* the four state words of a generator
words(g) == <<g.s0, g.s1, g.s2, g.s3>>

RECURSIVE uniforms(_, _, _)
\* the generators after n calls of next() on source r
uniforms(H, r, n) == IF n = 0 THEN H ELSE uniforms(next(H, r).H, r, n - 1)

\* the point made of the next two uniforms of source r is accepted by the
\* do-while loop of gaussian: it is inside the unit disc and not its centre
accepted(H, r) ==
    signedUnit(next(H, r).v) * signedUnit(next(H, r).v)
      + signedUnit(next(next(H, r).H, r).v)
          * signedUnit(next(next(H, r).H, r).v) \in 1..268435455

\* what C22 says of a step in which source r answered a call, given the
\* numbers of uniform pairs a gaussian() without cached value may draw
pairRule(r, pairs) ==
    Len(calls'[r]) > Len(calls[r]) =>
        IF calls'[r][Len(calls'[r])][1] = "next"
        THEN /\ rngs'[r].hasSpare = rngs[r].hasSpare
             /\ rngs'[r].spare = rngs[r].spare
             /\ words(rngs'[r]) = words(uniforms(rngs, r, 1)[r])
        ELSE IF rngs[r].hasSpare
        THEN /\ words(rngs'[r]) = words(rngs[r])
             /\ ~rngs'[r].hasSpare
             /\ outs'[r][Len(outs'[r])] =
                   calls'[r][Len(calls'[r])][2]
                     + Mul(calls'[r][Len(calls'[r])][3], rngs[r].spare)
        ELSE /\ rngs'[r].hasSpare
             /\ \E n \in pairs :
                   /\ words(rngs'[r]) = words(uniforms(rngs, r, 2 * n)[r])
                   /\ accepted(uniforms(rngs, r, 2 * n - 2), r)
                   /\ \A m \in 1..(n - 1) :
                         ~accepted(uniforms(rngs, r, 2 * m - 2), r)

\* C22 as stated: a gaussian() call that finds no cached value draws exactly
\* two uniforms and caches the second output; the next gaussian() call
\* returns the cached value, scaled by its own mean and stddev, without
\* drawing; next() calls in between draw one uniform and leave the cache.
C22_TwoUniformsPerPair == [][\A r \in Sources : pairRule(r, {1})]_vars

\* C22 amended: a gaussian() call that finds no cached value draws two
\* uniforms per attempt and repeats the attempt while the point (u, v) is
\* outside the unit disc or at its centre, so it draws two uniforms or more,
\* an even number, and caches the second output; the rest as stated.
C22_TwoUniformsPerAttempt == [][\A r \in Sources : pairRule(r, 1..4)]_vars

\* C22 witness: source 1 answered next, gaussian, gaussian; the first
\* gaussian rejected its first point and drew four uniforms, the second
\* returned the cached value without drawing: five uniforms were drawn in all
C22_Witness ==
    /\ Len(calls[1]) = 3
    /\ calls[1][1][1] = "next" /\ calls[1][2][1] = "gaussian"
    /\ calls[1][3] = <<"gaussian", 500, 80>>
    /\ ~rngs[1].hasSpare
    /\ \E seed \in {42, 123, 999} :
          /\ ~accepted(uniforms(<<createRng(seed)>>, 1, 1), 1)
          /\ words(rngs[1]) = words(uniforms(<<createRng(seed)>>, 1, 5)[1])

----------------------------------------------------------------------------
(* Spec: one call of simulateFlight or simulateServe, one loop iteration    *)
(* per step.  fl holds the locals of the running simulateFlight, sv the     *)
(* frame of the caller, rngs the generator the call was given.              *)

\* a call of simulateFlight ("flight") or simulateServe ("serve")
Call(kind, startPos, velocity, spin, overrides) ==
    [kind |-> kind, startPos |-> startPos, velocity |-> velocity,
     spin |-> spin, overrides |-> overrides]

NoSpin == V3(0, 0, 0)

Calls ==
    { Call("flight", V3(0, 100000, 25000), V3(0, -600000, 50000),
           NoSpin, NoOverrides),
      Call("flight", V3(0, -100000, 25000), V3(0, 600000, 50000),
           NoSpin, NoOverrides),
      Call("flight", V3(0, 30000, 10000), V3(0, -2000000, -20000),
           NoSpin, NoOverrides),
      Call("flight", V3(0, 100000, 25000), V3(0, -1500000, 400000),
           NoSpin, NoOverrides),
      Call("flight", V3(0, 100000, 30000), V3(2000000, -500000, 200000),
           NoSpin, NoOverrides),
      Call("flight", V3(0, 100000, 25000), V3(0, -600000, 50000),
           V3(30000, 0, 10000), NoOverrides),
      Call("flight", V3(0, 100000, 25000), V3(0, -800000, 150000),
           V3(-40000, 10000, 0), NoOverrides),
      Call("flight", V3(0, 100000, 25000), V3(0, -600000, 28000),
           NoSpin, NoOverrides),
      Call("flight", V3(0, 100000, 25000), V3(0, -945000, 50000),
           NoSpin, NoOverrides),
      Call("flight", V3(0, 156500, 25000), V3(0, -600000, 50000),
           NoSpin, NoOverrides),
      Call("flight", V3(0, 156450, 25000), V3(0, -600000, 50000),
           NoSpin, NoOverrides),
      Call("flight", V3(0, 0, 20000), V3(0, -500000, 0),
           NoSpin, NoOverrides),
      Call("flight", V3(0, 10, 14800), V3(0, -600000, -8000000),
           NoSpin, NoOverrides),
      Call("flight", V3(0, 100000, 0), V3(0, 100000, -50000),
           NoSpin, NoOverrides),
      Call("flight", V3(0, 100000, 0), V3(0, 100000, -50000),
           NoSpin, [maxFlightTime |-> 51000]),
      Call("flight", V3(0, 100000, 25000), V3(0, -600000, 50000),
           NoSpin, [maxFlightTime |-> 51000]),
      Call("serve", V3(0, 157000, 30000), V3(0, -500000, -150000),
           NoSpin, NoOverrides),
      Call("serve", V3(0, -157000, 30000), V3(0, 500000, -150000),
           NoSpin, NoOverrides),
      Call("serve", V3(0, 157000, 30000), V3(0, -500000, -150000),
           V3(20000, 5000, 0), NoOverrides),
      Call("serve", V3(0, 157000, 30000), V3(0, -350000, 150000),
           NoSpin, NoOverrides),
      Call("serve", V3(0, 157000, 30000), V3(0, -300000, -400000),
           NoSpin, NoOverrides),
      Call("serve", V3(0, 157000, 30000), V3(0, -1200000, 100000),
           NoSpin, NoOverrides),
      Call("serve", V3(0, 157000, 30000), V3(0, 100000, 0),
           NoSpin, NoOverrides),
      Call("serve", V3(0, 157000, 30000), V3(0, -900000, 30000),
           NoSpin, NoOverrides),
      Call("serve", V3(0, 0, 30000), V3(0, 200000, 0),
           NoSpin, NoOverrides),
      Call("serve", V3(0, 1000, 3000), V3(0, -500000, -1500000),
           NoSpin, [gravity |-> 0, airDensity |-> 0]) }

Init ==
    /\ \E c \in Calls, seed \in {42} :
         /\ rngs = <<createRng(seed)>>
         /\ fl = flightInit(c.startPos, c.velocity, c.spin,
                            mergeConfig(c.overrides))
         /\ sv = [call |-> c, phase |-> 1, phase1 |-> NoResult,
                  result |-> NoResult]
    /\ calls = Idle /\ outs = Idle /\ calc = Idle /\ sims = Idle

\* one iteration of the loop of simulateFlight
FlightStep ==
    /\ ~fl.done /\ loopGuard(fl)
    /\ \E F \in {flightStep(fl, rngs, 1)} : fl' = F.f /\ rngs' = F.H
    /\ UNCHANGED <<sv, calls, outs, calc, sims>>

\* the loop of simulateFlight ends on its condition
FlightTimeout ==
    /\ ~fl.done /\ ~loopGuard(fl)
    /\ fl' = flightTimeout(fl)
    /\ UNCHANGED <<rngs, sv, calls, outs, calc, sims>>

\* simulateFlight returns to a caller that is not simulateServe
FlightReturn ==
    /\ sv.call.kind = "flight" /\ fl.done /\ sv.result = NoResult
    /\ sv' = [sv EXCEPT !.result = fl.result]
    /\ UNCHANGED <<rngs, fl, calls, outs, calc, sims>>

\* simulateServe returns phase 1 as it is
ServeFault ==
    /\ sv.call.kind = "serve" /\ sv.phase = 1 /\ fl.done
    /\ sv.result = NoResult
    /\ serveFault(sv.call.startPos, fl.result)
    /\ sv' = [sv EXCEPT !.phase1 = fl.result, !.result = fl.result]
    /\ UNCHANGED <<rngs, fl, calls, outs, calc, sims>>

\* simulateServe calls simulateFlight a second time
ServePhase2 ==
    /\ sv.call.kind = "serve" /\ sv.phase = 1 /\ fl.done
    /\ sv.result = NoResult
    /\ ~serveFault(sv.call.startPos, fl.result)
    /\ sv' = [sv EXCEPT !.phase = 2, !.phase1 = fl.result]
    /\ fl' = flightInit(fl.result.landingPosition, fl.result.landingVelocity,
                       fl.result.landingSpin, fl.config)
    /\ UNCHANGED <<rngs, calls, outs, calc, sims>>

\* simulateServe returns the combined result
ServeReturn ==
    /\ sv.call.kind = "serve" /\ sv.phase = 2 /\ fl.done
    /\ sv.result = NoResult
    /\ sv' = [sv EXCEPT !.result = serveCombine(sv.phase1, fl.result)]
    /\ UNCHANGED <<rngs, fl, calls, outs, calc, sims>>

Next ==
    \/ FlightStep
    \/ FlightTimeout
    \/ FlightReturn
    \/ ServeFault
    \/ ServePhase2
    \/ ServeReturn

Spec == Init /\ [][Next]_vars


----------------------------------------------------------------------------
(* The trajectory simulator: what one loop iteration is about to do.        *)

\* a loop iteration is taken between this state and the next
Stepping == ~fl.done /\ fl'.step = fl.step + 1

\* the velocity and the position the iteration computes
stepVel == eulerVelocity(fl)

stepPos == v3add(fl.pos, v3scaleMicro(stepVel, fl.config.timestep))

\* the iteration is the first one to find the ball on the other side
firstCrossing == ~fl.crossedNet /\ sign(stepPos.y) = -fl.startSide

\* the height and the x interpolated at Y = 0
crossT == MulDiv(Abs(fl.pos.y), 1000000, Abs(fl.pos.y) + Abs(stepPos.y))

crossH == fl.pos.z + MulDiv(stepPos.z - fl.pos.z, crossT, 1000000)

\* the iteration ends the flight at the net
netEnds == firstCrossing /\ (crossH <= 0 \/ crossH <= fl.config.netHeight
                                             - fl.config.netContactMargin)

\* the velocity scaled by the net-clip retention factors
clipped(v, config) ==
    V3(Mul(v.x, config.netClipRetentionX), Mul(v.y, config.netClipRetentionY),
       Mul(v.z, config.netClipRetentionZ))

\* the velocity the iteration carries past the net
pastNetVel ==
    IF firstCrossing /\ crossH < fl.config.netHeight
    THEN clipped(stepVel, fl.config) ELSE stepVel

\* the height goes from > 0 to <= 0 in the iteration
heightCrossesZero == fl.pos.z > 0 /\ stepPos.z <= 0

landT == MulDiv(fl.pos.z, 1000000, fl.pos.z - stepPos.z)

landXY ==
    V3(fl.pos.x + MulDiv(stepPos.x - fl.pos.x, landT, 1000000),
       fl.pos.y + MulDiv(stepPos.y - fl.pos.y, landT, 1000000), 0)

withinTable ==
    /\ 2 * Abs(landXY.x) <= fl.config.tableWidth
    /\ 2 * Abs(landXY.y) <= fl.config.tableLength

\* the result of the flight is one of a landing that went on past the net
\* with velocity v
landingOf(res, v) ==
    /\ res.landingPosition.z = 0
    /\ ~res.landsOnTable => res.landingVelocity = v
    /\ (res.landsOnTable /\ ~res.edgeContact)
           => res.landingVelocity = applyBounce(v, fl.spn, fl.config).velocity

\* ceil(maxFlightTime / timestep), by its defining inequalities
stepBudget ==
    CHOOSE n \in 0..(fl.config.maxFlightTime \div fl.config.timestep + 1) :
        /\ n * fl.config.timestep >= fl.config.maxFlightTime
        /\ (n - 1) * fl.config.timestep < fl.config.maxFlightTime

----------------------------------------------------------------------------
(* C3: simulateFlight never takes more than ceil(maxFlightTime / timestep)  *)
(* integration steps, whatever the start position, velocity and spin (a     *)
(* start at height <= 0 included); once that many steps are taken without   *)
(* a terminal net or landing event the call returns at once, the result     *)
(* being the last position, velocity and spin with landsOnTable = false.    *)
C3_StepBudgetThenLastState ==
    /\ [](fl.step <= stepBudget)
    /\ [][(~fl.done /\ fl.step >= stepBudget)
            => /\ fl'.done /\ fl'.step = fl.step
               /\ fl'.result.landingPosition = fl.pos
               /\ fl'.result.landingVelocity = fl.vel
               /\ fl'.result.landingSpin = fl.spn
               /\ fl'.result.apex = fl.apex
               /\ ~fl'.result.landsOnTable
               /\ fl'.result.flightTime = fl.step * fl.config.timestep]_vars

\* a flight started at height <= 0 has used the whole default budget and
\* returned its last state
C3_Witness ==
    /\ sv.call.kind = "flight" /\ sv.call.startPos.z <= 0
    /\ fl.done /\ fl.step = 1500 /\ fl.step = stepBudget
    /\ fl.result.landingPosition = fl.pos /\ fl.pos.z < 0
    /\ ~fl.result.landsOnTable

----------------------------------------------------------------------------
(* C4: at the first step that finds the ball's Y sign opposite to its       *)
(* starting side, with h the height interpolated at Y = 0: h <= 0 ends the  *)
(* flight with crossedNet = false and landsOnTable = false; h below         *)
(* netHeight and above netHeight - netContactMargin sets netContact and     *)
(* crossedNet, scales the velocity per axis by the net-clip retention       *)
(* factors and goes on; h below netHeight and not within the margin ends    *)
(* the flight with netContact = true, crossedNet = false, landsOnTable =    *)
(* false; h >= netHeight sets crossedNet without net contact and goes on.   *)
C4_NetCrossingOutcomes ==
    [][(Stepping /\ firstCrossing) =>
        IF crossH <= 0
        THEN fl'.done /\ ~fl'.result.crossedNet /\ ~fl'.result.landsOnTable
        ELSE IF crossH < fl.config.netHeight
                /\ crossH > fl.config.netHeight - fl.config.netContactMargin
        THEN /\ fl'.netContact /\ fl'.crossedNet
             /\ IF fl'.done
                THEN /\ fl'.result.netContact /\ fl'.result.crossedNet
                     /\ landingOf(fl'.result, clipped(stepVel, fl.config))
                ELSE /\ fl'.vel = clipped(stepVel, fl.config)
                     /\ fl'.pos = stepPos
        ELSE IF crossH < fl.config.netHeight
        THEN /\ fl'.done /\ fl'.result.netContact
             /\ ~fl'.result.crossedNet /\ ~fl'.result.landsOnTable
        ELSE /\ fl'.crossedNet /\ fl'.netContact = fl.netContact
             /\ IF fl'.done
                THEN /\ fl'.result.crossedNet
                     /\ fl'.result.netContact = fl.netContact
                     /\ landingOf(fl'.result, stepVel)
                ELSE fl'.vel = stepVel /\ fl'.pos = stepPos]_vars

\* a flight that clipped the net has gone on and landed on the far half
C4_Witness ==
    /\ fl.done /\ fl.result.netContact /\ fl.result.crossedNet
    /\ fl.result.landsOnTable
    /\ sign(fl.result.landingPosition.y) = -fl.startSide


----------------------------------------------------------------------------
(* The landing rule of simulateFlight for the iteration about to be taken:  *)
(* the flight ends with the position interpolated at z = 0; within the      *)
(* table bounds the result has landsOnTable = true, z = 0 and the velocity  *)
(* and spin after the bounce (on edge contact the vertical velocity is      *)
(* reversed and the random deflection added); outside them landsOnTable =   *)
(* false and the velocity and spin before any bounce.                       *)
landingRule ==
    /\ fl'.done
    /\ fl'.result.landingPosition = landXY
    /\ IF withinTable
       THEN /\ fl'.result.landsOnTable
            /\ fl'.result.landingPosition.z = 0
            /\ fl'.result.landingSpin
                 = applyBounce(pastNetVel, fl.spn, fl.config).spin
            /\ IF fl'.result.edgeContact
               THEN fl'.result.landingVelocity.z >= 0
               ELSE fl'.result.landingVelocity
                      = applyBounce(pastNetVel, fl.spn, fl.config).velocity
       ELSE /\ ~fl'.result.landsOnTable
            /\ fl'.result.landingVelocity = pastNetVel
            /\ fl'.result.landingSpin = fl.spn

\* C5 as first stated: every step in which the height goes from > 0 to
\* <= 0 ends the flight by the landing rule
C5_EveryDescentLands ==
    [][(Stepping /\ heightCrossesZero) => landingRule]_vars

(* C5: in simulateFlight, the step in which the height goes from > 0 to     *)
(* <= 0, unless that same step ends the flight at the net (a first net      *)
(* crossing at height <= 0 or into the net), ends the flight with the       *)
(* landing X/Y interpolated at z = 0: if |x| <= tableWidth/2 and |y| <=     *)
(* tableLength/2 the result has landsOnTable = true, landingPosition.z = 0  *)
(* and post-bounce velocity and spin; otherwise it has landsOnTable = false *)
(* and the un-bounced velocity and spin.                                    *)
C5_DescentLandsUnlessNetEnds ==
    [][(Stepping /\ heightCrossesZero /\ ~netEnds) => landingRule]_vars

\* a flight has come down beyond the end of the table, and is reported off
\* the table with the velocity still pointing down
C5_Witness ==
    /\ fl.done /\ fl.result.landingPosition.z = 0 /\ ~fl.result.landsOnTable
    /\ Abs(fl.result.landingPosition.x) <= fl.config.tableWidth \div 2
    /\ Abs(fl.result.landingPosition.y) > fl.config.tableLength \div 2
    /\ fl.result.landingVelocity.z < 0 /\ fl.result.crossedNet

----------------------------------------------------------------------------
\* the first flight of the serve came down on no half, or on the half
\* whose Y sign is sgn
phase1Missed(sgn) ==
    /\ sv.call.kind = "serve" /\ sv.phase1 # NoResult
    /\ \/ ~sv.phase1.landsOnTable
       \/ sign(sv.phase1.landingPosition.y) = sgn

\* simulateServe has returned phase 1 as it is, having run one flight only
phase1Returned ==
    /\ sv.phase = 1 /\ sv.result = sv.phase1 /\ fl.result = sv.phase1

----------------------------------------------------------------------------
(* C7: whenever simulateServe runs phase 2, phase 2 starts from phase 1's   *)
(* landing position, post-bounce velocity and spin, and the combined result *)
(* has netContact and edgeContact equal to the OR of both phases, the apex  *)
(* of the phase with the higher apex, flightTime the sum of both flight     *)
(* times, and landingPosition, landingVelocity, landingSpin, crossedNet and *)
(* landsOnTable taken from phase 2.                                         *)
C7_Phase2StartAndMerge ==
    (sv.call.kind = "serve" /\ sv.phase = 2) =>
        /\ fl.step = 0 =>
             /\ fl.pos = sv.phase1.landingPosition
             /\ fl.vel = sv.phase1.landingVelocity
             /\ fl.spn = sv.phase1.landingSpin
             /\ fl.time = 0 /\ ~fl.crossedNet /\ ~fl.netContact
        /\ sv.result # NoResult =>
             /\ fl.done
             /\ sv.result.netContact
                  = (sv.phase1.netContact \/ fl.result.netContact)
             /\ sv.result.edgeContact
                  = (sv.phase1.edgeContact \/ fl.result.edgeContact)
             /\ sv.result.apex \in {sv.phase1.apex, fl.result.apex}
             /\ sv.result.apex.z >= sv.phase1.apex.z
             /\ sv.result.apex.z >= fl.result.apex.z
             /\ sv.result.flightTime
                  = sv.phase1.flightTime + fl.result.flightTime
             /\ sv.result.landingPosition = fl.result.landingPosition
             /\ sv.result.landingVelocity = fl.result.landingVelocity
             /\ sv.result.landingSpin = fl.result.landingSpin
             /\ sv.result.crossedNet = fl.result.crossedNet
             /\ sv.result.landsOnTable = fl.result.landsOnTable

\* a serve that touched the edge in phase 1 only, with the higher apex in
\* phase 1, has been combined with a phase 2 that landed
C7_Witness ==
    /\ sv.call.kind = "serve" /\ sv.phase = 2 /\ sv.result # NoResult
    /\ sv.phase1.edgeContact /\ ~fl.result.edgeContact
    /\ sv.result.edgeContact
    /\ sv.phase1.apex.z > fl.result.apex.z
    /\ sv.result.landsOnTable


----------------------------------------------------------------------------
(* The draws of simulateFlight.                                             *)

\* the iteration about to be taken lands on the table within
\* edgeContactMargin of one of its edges
edgeLanding ==
    /\ heightCrossesZero /\ ~netEnds /\ withinTable
    /\ Min2(fl.config.tableWidth \div 2 - Abs(landXY.x),
            fl.config.tableLength \div 2 - Abs(landXY.y))
         <= fl.config.edgeContactMargin

\* the three draws of an edge contact, in their order
deflectX == gaussian(rngs, 1, 0, fl.config.edgeDeflectionStddevX)

deflectY == gaussian(deflectX.H, 1, 0, fl.config.edgeDeflectionStddevY)

retainZ == next(deflectY.H, 1)

\* C28: simulateFlight draws only in the iteration that lands on the table
\* within edgeContactMargin of an edge, and then a gaussian for the X
\* deflection, a gaussian for the Y deflection and a uniform for the
\* vertical retention, in that order, with edgeContact = true; every other
\* step of a flight (a plain bounce, an off-table landing, a net fault, the
\* timeout, the returns) leaves the generator as it was, and a flight that
\* ends there reports edgeContact = false.
C28_DrawsOnlyOnEdgeContact ==
    [][IF Stepping /\ edgeLanding
       THEN /\ rngs' = retainZ.H
            /\ fl'.done /\ fl'.result.edgeContact /\ fl'.result.landsOnTable
            /\ fl'.result.landingVelocity.x
                 = applyBounce(pastNetVel, fl.spn, fl.config).velocity.x
                     + deflectX.v
            /\ fl'.result.landingVelocity.y
                 = applyBounce(pastNetVel, fl.spn, fl.config).velocity.y
                     + deflectY.v
            /\ fl'.result.landingVelocity.z
                 = Mul(applyBounce(pastNetVel, fl.spn, fl.config).velocity.z,
                       fl.config.edgeDeflectionMinZRetention
                         + Mul(unitMilli(retainZ.v),
                               1000 - fl.config.edgeDeflectionMinZRetention))
       ELSE /\ rngs' = rngs
            /\ (~fl.done /\ fl'.done) => ~fl'.result.edgeContact]_vars

\* a flight has ended on the edge of the table, three uniforms drawn: two
\* for the pair of deflections and one for the retention
C28_Witness ==
    /\ fl.done /\ fl.result.edgeContact /\ fl.result.landsOnTable
    /\ words(rngs[1]) = words(uniforms(<<createRng(42)>>, 1, 3)[1])
    /\ ~rngs[1].hasSpare

----------------------------------------------------------------------------
(* SpecCalc: the stateless operations, one call per step.  calc holds the   *)
(* last call (operation, arguments, result, the divisors met, the generator *)
(* before the call), rngs the generator the engines share, calls the number *)
(* of calls that were given the generator.                                  *)

MaxReads == 1

Attributes == {0, 60, 100}

Fractions == {0, 500, 1000}

\* configurations whose weights exceed 1, next to the defaults
HeavyWeights ==
    [positionWeight |-> 3000, timePressureWeight |-> 3000, riskWeight |-> 2500]

\* the spin-read configuration a caller passes
SpinReadConfigs ==
    { [readDifficultyScale |-> 1000, readAccuracyBase |-> 300,
       readAccuracySpinReadScale |-> 700, readDifficultyPenalty |-> 500,
       minReadAccuracy |-> 50, spinNoiseStddev |-> 500,
       spinMisreadEpsilon |-> 1],
      [readDifficultyScale |-> 2000, readAccuracyBase |-> 0,
       readAccuracySpinReadScale |-> 1500, readDifficultyPenalty |-> 2000,
       minReadAccuracy |-> 0, spinNoiseStddev |-> 8000,
       spinMisreadEpsilon |-> 1000] }

ReceiverPositions == {V2(20000, 90000), V2(0, 160000), V2(-60000, 250000)}

ActualSpins == {V3(0, 0, 0), V3(0, 0, 500), V3(-20000, 90000, 10000)}

Called(op, in, out, divisors) ==
    [op |-> op, in |-> in, out |-> out, divisors |-> divisors, before |-> rngs]

InitCalc ==
    /\ rngs = <<createRng(42)>>
    /\ calls = 0
    /\ calc = [op |-> "none"]
    /\ outs = Idle /\ fl = Idle /\ sv = Idle /\ sims = Idle

CalcExecutionQuality ==
    /\ \E c \in Attributes, pd \in Fractions, risk \in {0, 1000},
          t \in {0, 150000, 2000000},
          o \in {NoOverrides, HeavyWeights} :
          calc' = Called("computeExecutionQuality",
                    [consistency |-> c, positionalDeficit |-> pd,
                     timeAvailable |-> t, riskLevel |-> risk, overrides |-> o],
                    computeExecutionQuality(c, pd, t, risk, mergeConfig(o)),
                    {mergeConfig(o).comfortableTime})
    /\ UNCHANGED <<rngs, calls, outs, fl, sv, sims>>

CalcServeQuality ==
    /\ \E sk \in Attributes, c \in Attributes, risk \in Fractions,
          o \in {NoOverrides, HeavyWeights} :
          calc' = Called("computeServeQuality",
                    [serviceSkill |-> sk, consistency |-> c,
                     riskLevel |-> risk, overrides |-> o],
                    computeServeQuality(sk, c, risk, mergeConfig(o)), {})
    /\ UNCHANGED <<rngs, calls, outs, fl, sv, sims>>

\* analyzeArrival on an ordinary flight, one with no launch velocity and one
\* that lands where it started; the divisors are the ball speed and the reach
CalcArrival ==
    /\ \E ball \in
            { [startPosition |-> V3(0, -150000, 30000),
               velocity |-> V3(100000, 900000, 150000),
               spin |-> V3(30000, 0, 0),
               landingPosition |-> V3(20000, 90000, 0)],
              [startPosition |-> V3(0, -150000, 30000),
               velocity |-> V3(0, 0, 0), spin |-> V3(0, 0, 0),
               landingPosition |-> V3(20000, 90000, 0)],
              [startPosition |-> V3(20000, 90000, 0),
               velocity |-> V3(0, 600000, -200000), spin |-> V3(0, 0, 5000),
               landingPosition |-> V3(20000, 90000, 0)] },
          pos \in ReceiverPositions, fw \in Attributes,
          o \in {NoOverrides, [stretchThreshold |-> 500]} :
          \E a \in {analyzeArrival(ball, pos, fw, mergeConfig(o))} :
             calc' = Called("analyzeArrival",
                       [ball |-> ball, receiverPosition |-> pos,
                        receiverFootwork |-> fw, overrides |-> o],
                       a,
                       {v3mag(ball.velocity),
                        maxReachOf(fw, a.timeAvailable, mergeConfig(o))}
                       \ {0})
    /\ UNCHANGED <<rngs, calls, outs, fl, sv, sims>>

\* computeVelocity; the divisors are the horizontal distance, the horizontal
\* speed and the two flight times
CalcVelocity ==
    /\ \E start \in {V3(0, -150000, 30000), V3(20000, 150000, 25000),
                     V3(0, 0, 30000)},
          target \in {V2(0, 100000), V2(20000, 150000), V2(-30000, -100000),
                      V2(0, 0), V2(60000, 20000)},
          nc \in {1000, 25000}, speed \in {500000, 2000000} :
          calc' = Called("computeVelocity",
                    [start |-> start, target |-> target,
                     netClearance |-> nc, speed |-> speed],
                    computeVelocity(start, target, nc, speed,
                                    DEFAULT_PHYSICS_CONFIG),
                    IF horizontalDistOf(start, target) = 0 THEN {}
                    ELSE {horizontalDistOf(start, target),
                          Max2(Mul(speed, 850), 1000),
                          flightTimeOver(horizontalDistOf(start, target),
                                         Mul(speed, 850))}
                         \cup (IF sign(start.y) * sign(target.y) < 0
                               THEN {flightTimeOver(Abs(start.y),
                                                    Mul(speed, 850))}
                               ELSE {}))
    /\ UNCHANGED <<rngs, calls, outs, fl, sv, sims>>

CalcSpinVector ==
    /\ \E magnitude \in {0, 50000, 150000},
          topspin \in {-1000, -500, 0, 500, 1000},
          sidespin \in {-1000, -500, 0, 500, 1000} :
          calc' = Called("computeSpinVector",
                    [magnitude |-> magnitude,
                     direction |-> [topspin |-> topspin,
                                    sidespin |-> sidespin]],
                    computeSpinVector(magnitude,
                                      [topspin |-> topspin,
                                       sidespin |-> sidespin]),
                    {})
    /\ UNCHANGED <<rngs, calls, outs, fl, sv, sims>>

CalcReadDifficulty ==
    /\ \E d \in Attributes, e \in Fractions, config \in SpinReadConfigs :
          calc' = Called("computeReadDifficulty",
                    [senderDeception |-> d, deceptionEffort |-> e,
                     config |-> config],
                    computeReadDifficulty(d, e, config), {})
    /\ UNCHANGED <<rngs, calls, outs, fl, sv, sims>>

CalcReadAccuracy ==
    /\ \E sr \in Attributes, d \in Fractions, config \in SpinReadConfigs :
          calc' = Called("computeReadAccuracy",
                    [receiverSpinRead |-> sr, readDifficulty |-> d,
                     config |-> config],
                    computeReadAccuracy(sr, d, config), {})
    /\ UNCHANGED <<rngs, calls, outs, fl, sv, sims>>

CalcPerceivedSpin ==
    /\ calls < MaxReads
    /\ \E spin \in ActualSpins, acc \in {0, 500, 1000},
          config \in SpinReadConfigs :
          \E p \in {computePerceivedSpin(spin, acc, rngs, 1, config)} :
             /\ calc' = Called("computePerceivedSpin",
                          [actualSpin |-> spin, readAccuracy |-> acc,
                           config |-> config],
                          [perceivedSpin |-> p.perceivedSpin,
                           misread |-> p.misread],
                          IF v3mag(spin) < config.spinMisreadEpsilon THEN {}
                          ELSE {v3mag(spin)})
             /\ rngs' = p.H
    /\ calls' = calls + 1
    /\ UNCHANGED <<outs, fl, sv, sims>>

CalcSelectSide ==
    /\ calls < MaxReads
    /\ \E availableSides \in {<<"forehand">>, <<"backhand">>,
                               <<"forehand", "backhand">>},
          fh \in {[powerCeiling |-> 90, spinCeiling |-> 88, accuracy |-> 78,
                   consistency |-> 80],
                  [powerCeiling |-> 50, spinCeiling |-> 50, accuracy |-> 50,
                   consistency |-> 50]},
          bh \in {[powerCeiling |-> 78, spinCeiling |-> 80, accuracy |-> 72,
                   consistency |-> 75],
                  [powerCeiling |-> 50, spinCeiling |-> 50, accuracy |-> 50,
                   consistency |-> 50]},
          o \in {NoOverrides, [strongSidePreferenceWeight |-> 1000],
                 [strongSidePreferenceWeight |-> 0]} :
          \E side \in {selectSide(availableSides,
                                  [forehand |-> fh, backhand |-> bh], rngs, 1,
                                  mergePlayerConfig(o))} :
             /\ calc' = Called("selectSide",
                          [availableSides |-> availableSides,
                           capabilities |-> [forehand |-> fh, backhand |-> bh],
                           overrides |-> o],
                          side.v, {})
             /\ rngs' = side.H
    /\ calls' = calls + 1
    /\ UNCHANGED <<outs, fl, sv, sims>>

CalcEffectiveRisk ==
    /\ \E pressured \in {0, 400, 1000},
          positionalDeficit \in {0, 500, 600, 1000},
          o \in {NoOverrides,
                 [safetyDeficitThreshold |-> 0, deficitRiskReduction |-> 1000]} :
          calc' = Called("effectiveRisk",
                    [pressured |-> pressured,
                     positionalDeficit |-> positionalDeficit, overrides |-> o],
                    effectiveRiskOf(pressured, positionalDeficit,
                                    mergePlayerConfig(o)),
                    IF positionalDeficit
                         > mergePlayerConfig(o).safetyDeficitThreshold
                    THEN {1000 - mergePlayerConfig(o).safetyDeficitThreshold}
                    ELSE {})
    /\ UNCHANGED <<rngs, calls, outs, fl, sv, sims>>

CalcBounce ==
    /\ \E v \in {V3(0, 0, -300000), V3(120000, -800000, -250000)},
          spin \in ActualSpins \cup {V3(30000, 0, 0), V3(-30000, 0, 0),
                                      V3(1000, -40000, 0)},
          o \in {NoOverrides, [restitution |-> 500, surfaceFriction |-> 0]} :
          calc' = Called("applyBounce",
                    [velocity |-> v, spin |-> spin, overrides |-> o],
                    applyBounce(v, spin, mergeConfig(o)), {})
    /\ UNCHANGED <<rngs, calls, outs, fl, sv, sims>>

CalcRecovery ==
    /\ \E from \in ReceiverPositions, to \in ReceiverPositions,
          fw \in Attributes, t \in {0, 150000, 2000000} :
          calc' = Called("computeRecovery",
                    [currentPosition |-> from, targetPosition |-> to,
                     footwork |-> fw, timeAvailable |-> t],
                    computeRecovery(from, to, fw, t, DEFAULT_PHYSICS_CONFIG),
                    IF v2dist(from, to) <= 0 THEN {} ELSE {v2dist(from, to)})
    /\ UNCHANGED <<rngs, calls, outs, fl, sv, sims>>

\* applyError on the shared generator
CalcApplyError ==
    /\ calls < MaxReads
    /\ \E v \in {V3(0, -300000, 50000), V3(120000, 800000, 150000)},
          spin \in {V3(0, 20000, 0), V3(30000, 0, -5000)},
          quality \in {200, 990}, accuracy \in {0, 90} :
          \E a \in {applyError(v, spin, quality, accuracy,
                                DEFAULT_PHYSICS_CONFIG, rngs, 1)} :
             /\ calc' = Called("applyError",
                          [intendedVelocity |-> v, intendedSpin |-> spin,
                           quality |-> quality, accuracy |-> accuracy],
                          [velocity |-> a.velocity, spin |-> a.spin], {})
             /\ rngs' = a.H
    /\ calls' = calls + 1
    /\ UNCHANGED <<outs, fl, sv, sims>>

NextCalc ==
    \/ CalcApplyError
    \/ CalcExecutionQuality
    \/ CalcServeQuality
    \/ CalcArrival
    \/ CalcVelocity
    \/ CalcSpinVector
    \/ CalcReadDifficulty
    \/ CalcReadAccuracy
    \/ CalcPerceivedSpin
    \/ CalcSelectSide
    \/ CalcEffectiveRisk
    \/ CalcBounce
    \/ CalcRecovery

SpecCalc == InitCalc /\ [][NextCalc]_vars


\* the configuration of the recorded call
calcConfig == mergeConfig(calc.in.overrides)

\* C8: applyBounce draws nothing from the generator and changes nothing else:
\* after a call the generator is as it was before it, the outgoing vertical
\* velocity is minus the incoming one times the restitution, and each spin
\* component is the incoming one times (1 - surfaceFriction), to the last
\* digit kept.
C8_BounceReversesAndDamps ==
    calc.op = "applyBounce" =>
        /\ rngs = calc.before
        /\ Abs(1000 * calc.out.velocity.z
                 + calc.in.velocity.z * calcConfig.restitution) < 1000
        /\ calc.in.velocity.z < 0 => calc.out.velocity.z > 0
        /\ \A c \in {"x", "y", "z"} :
              Abs(1000 * calc.out.spin[c]
                    - calc.in.spin[c] * (1000 - calcConfig.surfaceFriction))
                 < 1000

\* C8 witness: a spinning, descending ball has bounced under the default
\* configuration after the generator had been drawn from
C8_Witness ==
    /\ calc.op = "applyBounce"
    /\ calc.in.overrides = NoOverrides
    /\ calls = 1 /\ rngs # <<createRng(42)>>
    /\ calc.in.velocity = V3(120000, -800000, -250000)
    /\ calc.in.spin = V3(-20000, 90000, 10000)
    /\ calc.out.velocity.z = 232500
    /\ calc.out.spin = V3(-15000, 67500, 7500)

\* the operations that return a fraction, and the fraction returned
fractionOf ==
    CASE calc.op \in {"computeExecutionQuality", "computeServeQuality",
                      "computeReadAccuracy", "computeReadDifficulty"}
            -> calc.out
      [] calc.op = "analyzeArrival" -> calc.out.positionalDeficit
      [] calc.op = "computePerceivedSpin" -> calc.out.misread
      [] OTHER -> 0

\* C9: for attributes in 0..100, fractions in [0,1] and non-negative times
\* and distances, the quality of computeExecutionQuality and
\* computeServeQuality, the positionalDeficit of analyzeArrival, the read
\* accuracy of computeReadAccuracy and the misread of computePerceivedSpin
\* are all in [0,1].
C9_FractionsInUnitRange == fractionOf >= 0 /\ fractionOf <= 1000

\* C9 witness: under weights above 1 the product of the factors of
\* computeExecutionQuality has left [0,1] and the value returned is 1
C9_Witness ==
    /\ calc.op = "computeExecutionQuality"
    /\ rawQuality(calc.in.consistency, calc.in.positionalDeficit,
                  calc.in.timeAvailable, calc.in.riskLevel, calcConfig) > 1000
    /\ calc.out = 1000

\* the distance analyzeArrival measures to the contact point
distToContactOf(in) ==
    v2dist(in.receiverPosition,
           V2(in.ball.landingPosition.x, in.ball.landingPosition.y))

\* C10: no recorded operation meets a zero divisor, and each guarded case
\* takes its fallback: computeVelocity over a zero horizontal distance
\* returns (0, 0, -speed / 2); analyzeArrival of a ball with zero speed has
\* half a second available; analyzeArrival with zero reach has deficit 1 when
\* the contact point is away from the receiver and 0 when it is not;
\* computePerceivedSpin of a spin below the epsilon returns the spin itself
\* with misread 0 and draws nothing.
C10_ZeroDivisorsGuarded ==
    /\ calc.op # "none" => 0 \notin calc.divisors
    /\ (calc.op = "computeVelocity"
          /\ horizontalDistOf(calc.in.start, calc.in.target) = 0)
         => calc.out = V3(0, 0, -(calc.in.speed \div 2))
    /\ (calc.op = "analyzeArrival" /\ v3mag(calc.in.ball.velocity) = 0)
         => calc.out.timeAvailable = 500000
    /\ (calc.op = "analyzeArrival"
          /\ maxReachOf(calc.in.receiverFootwork, calc.out.timeAvailable,
                        DEFAULT_PHYSICS_CONFIG) = 0)
         => calc.out.positionalDeficit
              = IF distToContactOf(calc.in) > 0 THEN 1000 ELSE 0
    /\ (calc.op = "computePerceivedSpin"
          /\ v3mag(calc.in.actualSpin) < calc.in.config.spinMisreadEpsilon)
         => /\ calc.out.misread = 0
            /\ calc.out.perceivedSpin = calc.in.actualSpin
            /\ rngs = calc.before

\* C10 witness: computeVelocity was asked for a shot to the point straight
\* below its start and returned a purely vertical, downward velocity
C10_Witness ==
    /\ calc.op = "computeVelocity"
    /\ calc.in.start = V3(20000, 150000, 25000)
    /\ calc.in.target = V2(20000, 150000)
    /\ calc.in.speed = 2000000
    /\ calc.out = V3(0, 0, -1000000)

\* the side analyzeArrival would leave to a receiver stretched beyond the
\* threshold: forehand when the ball's X relative to the receiver is >= 0
closerSide(in) ==
    IF in.ball.landingPosition.x - in.receiverPosition.x >= 0
    THEN <<"forehand">> ELSE <<"backhand">>

\* C11: analyzeArrival reports both sides unless the positional deficit
\* exceeds the configured stretchThreshold, whatever value the configuration
\* was given; beyond it, exactly the one side on which the ball lies
\* (forehand when its X relative to the receiver is >= 0); never no side.
C11_SidesByConfiguredThreshold ==
    calc.op = "analyzeArrival" =>
        /\ calc.out.availableSides # <<>>
        /\ calc.out.availableSides =
              IF calc.out.positionalDeficit > calcConfig.stretchThreshold
              THEN closerSide(calc.in) ELSE <<"forehand", "backhand">>

\* the distance computeRecovery may cover: min(distance to the target,
\* footwork / 100 * maxRecoverySpeed * timeAvailable)
recoveryReach(in) ==
    Min2(v2dist(in.currentPosition, in.targetPosition),
         maxReachOf(in.footwork, in.timeAvailable, DEFAULT_PHYSICS_CONFIG))

\* the rounding allowed on a recovered position: the fraction of the way
\* is kept to three decimals
recoveryTolerance(in) == v2dist(in.currentPosition, in.targetPosition) \div 1000 + 3

\* C12: computeRecovery returns a point on the segment from the current
\* position to the target, at distance min(distance to the target, footwork
\* / 100 * maxRecoverySpeed * timeAvailable) from the current position: no
\* further from the current position than the target is, no further from
\* the target than the current position is, and the current position itself
\* when it is the target.
C12_RecoveryOnSegmentAtReach ==
    calc.op = "computeRecovery" =>
        /\ calc.in.currentPosition = calc.in.targetPosition
              => calc.out = calc.in.currentPosition
        /\ Abs(v2dist(calc.in.currentPosition, calc.out) - recoveryReach(calc.in))
              <= recoveryTolerance(calc.in)
        /\ Abs(MulDiv(calc.out.x - calc.in.currentPosition.x,
                      calc.in.targetPosition.y - calc.in.currentPosition.y, 1000)
               - MulDiv(calc.out.y - calc.in.currentPosition.y,
                        calc.in.targetPosition.x - calc.in.currentPosition.x,
                        1000))
              <= 2 * recoveryTolerance(calc.in)
        /\ \A c \in {"x", "y"} :
              \/ /\ calc.in.currentPosition[c] <= calc.out[c]
                 /\ calc.out[c] <= calc.in.targetPosition[c]
              \/ /\ calc.in.targetPosition[c] <= calc.out[c]
                 /\ calc.out[c] <= calc.in.currentPosition[c]
        /\ v2dist(calc.in.currentPosition, calc.out)
              <= v2dist(calc.in.currentPosition, calc.in.targetPosition)
        /\ v2dist(calc.out, calc.in.targetPosition)
              <= v2dist(calc.in.currentPosition, calc.in.targetPosition)

\* C12 witness: a recovery that runs out of time on the way, ending
\* strictly between the two positions at the reach of 45 cm
C12_Witness ==
    /\ calc.op = "computeRecovery"
    /\ calc.in.footwork = 60 /\ calc.in.timeAvailable = 150000
    /\ recoveryReach(calc.in) = 45000
    /\ calc.out # calc.in.currentPosition
    /\ calc.out # calc.in.targetPosition
    /\ Abs(v2dist(calc.in.currentPosition, calc.out) - 45000) <= 100

\* the generator after the three draws of the error model made in the order
\* azimuth, elevation, spin, with the values drawn
threeDraws(in, H) ==
    Return(With(With(With(With([H |-> H],
        "scale", LAMBDA e :
            Mul(Mul(DEFAULT_PHYSICS_CONFIG.baseErrorStddev, 1000 - in.quality),
                300 + Mul(700, 1000 - in.accuracy * 10))),
        "azimuth", LAMBDA e : gaussian(e.H, 1, 0, e.scale)),
        "elevation", LAMBDA e :
            gaussian(e.azimuth.H, 1, 0, Mul(e.scale, 500))),
        "spin", LAMBDA e :
            gaussian(e.elevation.H, 1, 0, Mul(1000 - in.quality, 200))),
        LAMBDA e : [H |-> e.spin.H, azimuth |-> e.azimuth.v,
                    elevation |-> e.elevation.v, spin |-> e.spin.v])

\* C21: an applyError call draws exactly three Gaussian values, in the order
\* azimuth error, elevation error, spin error, and nothing else: the
\* generator after the call is the generator after those three draws, and
\* the spin returned is the intended spin scaled by 1 plus the third.
C21_ThreeDrawsAzimuthElevationSpin ==
    calc.op = "applyError" =>
        /\ rngs = threeDraws(calc.in, calc.before).H
        /\ calc.out.spin.y =
              Mul(calc.in.intendedSpin.y,
                  1000 + threeDraws(calc.in, calc.before).spin)

\* the height of the gravity-only projectile launched from in.start with the
\* vertical velocity vz, t microseconds after the launch
heightAt(in, vz, t) ==
    in.start.z + MulDiv(vz, t, 1000000)
      - MulDiv(MulDiv(DEFAULT_PHYSICS_CONFIG.gravity \div 2, t, 1000000),
               t, 1000000)

\* the time at which the projectile launched with the velocity v reaches the
\* target, and that at which it crosses Y = 0, in microseconds
landingTime(in, v) ==
    Quot(horizontalDistOf(in.start, in.target), 1000000, mag3(v.x, v.y, 0))

crossingTime(in, v) == Quot(Abs(in.start.y), 1000000, Abs(v.y))

\* C23: for a nonzero horizontal distance the vertical velocity returned by
\* computeVelocity lands the gravity-only projectile at height 0 at the
\* target when start and target are on the same side of Y = 0; when they are
\* on opposite sides it is at least that velocity, and the height of the
\* projectile at the moment it crosses Y = 0 is not below netHeight +
\* netClearance (heights to within 0.1 cm).
C23_LandsOrClearsNet ==
    (calc.op = "computeVelocity"
        /\ horizontalDistOf(calc.in.start, calc.in.target) # 0) =>
        IF sign(calc.in.start.y) * sign(calc.in.target.y) < 0
        THEN /\ heightAt(calc.in, calc.out.z, landingTime(calc.in, calc.out))
                   >= -100
             /\ heightAt(calc.in, calc.out.z, crossingTime(calc.in, calc.out))
                   >= DEFAULT_PHYSICS_CONFIG.netHeight + calc.in.netClearance
                        - 100
        ELSE Abs(heightAt(calc.in, calc.out.z,
                          landingTime(calc.in, calc.out))) <= 100

\* the spin vector of the recorded call has the requested magnitude, to
\* within 0.01 rev/s, and no gyrospin
spinAsRequested ==
    /\ calc.out.z = 0
    /\ Abs(v3mag(calc.out) - calc.in.magnitude) <= 10

\* C24 as stated: for every direction in [-1,1] x [-1,1] the spin vector of
\* computeSpinVector has zero gyrospin and the requested total magnitude.
C24_SpinVectorHasRequestedMagnitude ==
    calc.op = "computeSpinVector" => spinAsRequested

\* C24: for every direction in [-1,1] x [-1,1] other than (0, 0) the spin
\* vector of computeSpinVector has zero gyrospin and the requested total
\* magnitude; for the direction (0, 0) it is the zero vector whatever the
\* magnitude.
C24_SpinVectorHasMagnitudeOfNonzeroDirection ==
    calc.op = "computeSpinVector" =>
        IF calc.in.direction.topspin = 0 /\ calc.in.direction.sidespin = 0
        THEN calc.out = V3(0, 0, 0)
        ELSE spinAsRequested

C24_Witness ==
    /\ calc.op = "computeSpinVector"
    /\ calc.in.magnitude = 150000
    /\ calc.in.direction = [topspin |-> -500, sidespin |-> 1000]
    /\ calc.out.x > 0 /\ calc.out.y < 0
    /\ calc.out.x > -2 * calc.out.y - 10 /\ calc.out.x < -2 * calc.out.y + 10

\* the score of a side of the recorded selectSide call, its random part
\* taken from the n-th uniform drawn after the call began
scoreOf(side, n) ==
    sideScore(calc.in.capabilities[side],
              mergePlayerConfig(calc.in.overrides).strongSidePreferenceWeight,
              next(uniforms(calc.before, 1, n - 1), 1))

\* C25: with one available side selectSide returns it and leaves the
\* generator as it was; with both it draws exactly two uniforms, the first
\* for the forehand's score and the second for the backhand's, and returns
\* the side with the higher score, forehand on a tie; the side returned is a
\* member of availableSides.
C25_SelectSideDrawsTwiceOrNever ==
    calc.op = "selectSide" =>
        /\ \E i \in DOMAIN calc.in.availableSides :
              calc.out = calc.in.availableSides[i]
        /\ IF Len(calc.in.availableSides) = 1
           THEN /\ calc.out = calc.in.availableSides[1]
                /\ rngs = calc.before
           ELSE /\ rngs = uniforms(calc.before, 1, 2)
                /\ scoreOf("forehand", 1) > scoreOf("backhand", 2)
                      => calc.out = "forehand"
                /\ scoreOf("forehand", 1) < scoreOf("backhand", 2)
                      => calc.out = "backhand"
                /\ scoreOf("forehand", 1) = scoreOf("backhand", 2)
                      => calc.out = "forehand"

C25_Witness ==
    /\ calc.op = "selectSide"
    /\ Len(calc.in.availableSides) = 2
    /\ scoreOf("forehand", 1) = scoreOf("backhand", 2)
    /\ calc.out = "forehand"
    /\ rngs # calc.before

\* the fraction of the way from the safety threshold to deficit 1 at which
\* the recorded deficit lies, in milli
excessDeficit ==
    Quot(calc.in.positionalDeficit
           - mergePlayerConfig(calc.in.overrides).safetyDeficitThreshold,
         1000,
         1000 - mergePlayerConfig(calc.in.overrides).safetyDeficitThreshold)

\* C26: the effective risk of decideShot is the pressure-adjusted risk up to
\* the safety threshold; above it the risk is multiplied by 1 - excess x
\* deficitRiskReduction, so it is never above the pressure-adjusted risk, is
\* lowered by at most the fraction deficitRiskReduction, by exactly that
\* fraction at deficit 1, and lies in [0, 1].
C26_EffectiveRiskScaledPastThreshold ==
    calc.op = "effectiveRisk" =>
        /\ calc.in.positionalDeficit
             <= mergePlayerConfig(calc.in.overrides).safetyDeficitThreshold
              => calc.out = calc.in.pressured
        /\ calc.in.positionalDeficit
             > mergePlayerConfig(calc.in.overrides).safetyDeficitThreshold
              => calc.out =
                   Mul(calc.in.pressured,
                       1000 - Mul(excessDeficit,
                                  mergePlayerConfig(calc.in.overrides)
                                     .deficitRiskReduction))
        /\ calc.out <= calc.in.pressured
        /\ calc.out >=
             Mul(calc.in.pressured,
                 1000 - mergePlayerConfig(calc.in.overrides)
                           .deficitRiskReduction)
        /\ calc.in.positionalDeficit = 1000
              => calc.out =
                   Mul(calc.in.pressured,
                       1000 - mergePlayerConfig(calc.in.overrides)
                                 .deficitRiskReduction)
        /\ calc.out \in 0..1000

C26_Witness ==
    /\ calc.op = "effectiveRisk"
    /\ calc.in.overrides = NoOverrides
    /\ calc.in.positionalDeficit = 600
    /\ calc.in.pressured = 1000
    /\ calc.out = 900

\* the forward velocity after the recorded bounce had the ball no spin
vyWithoutSpin ==
    applyBounce(calc.in.velocity, V3(0, 0, 0),
                mergeConfig(calc.in.overrides)).velocity.y

----------------------------------------------------------------------------
(* SpecEngine: two simulation setups built from one seed and driven side by *)
(* side.  A setup is one generator (rngs[k]) shared by a physics engine and *)
(* the engines of the two players; sims[k] holds the engines, the values    *)
(* handed from one call to the next, and the calls made with their results. *)

Setups == {1, 2}

Attacker ==
    [name |-> "Zhang Wei",
     attributes |-> [footwork |-> 82, reaction |-> 78, spinRead |-> 75,
                     deception |-> 70, stamina |-> 72, mental |-> 75,
                     service |-> 80, adaptability |-> 65],
     strokeCapabilities |->
        [forehand |-> [powerCeiling |-> 90, spinCeiling |-> 88,
                       accuracy |-> 78, consistency |-> 80],
         backhand |-> [powerCeiling |-> 78, spinCeiling |-> 80,
                       accuracy |-> 72, consistency |-> 75]],
     equipment |->
        [blade |-> [speed |-> 88],
         forehandRubber |-> [type |-> "inverted", spin |-> 90, speed |-> 85,
                             control |-> 65],
         backhandRubber |-> [type |-> "inverted", spin |-> 82, speed |-> 80,
                             control |-> 72]],
     strokeTendencies |->
        [powerBias |-> 72, spinIntensity |-> 75, topspinBias |-> 82,
         sidespinUsage |-> 30, depthBias |-> 70, netClearance |-> 30,
         riskTolerance |-> 65],
     serveTendencies |->
        [length |-> 60, speed |-> 70, spinAmount |-> 75, spinVariation |-> 55,
         backspinBias |-> 35, sidespinBias |-> 65, risk |-> 60]]

Chopper ==
    [name |-> "Kim Soo-jin",
     attributes |-> [footwork |-> 90, reaction |-> 82, spinRead |-> 85,
                     deception |-> 80, stamina |-> 88, mental |-> 78,
                     service |-> 72, adaptability |-> 70],
     strokeCapabilities |->
        [forehand |-> [powerCeiling |-> 62, spinCeiling |-> 78,
                       accuracy |-> 72, consistency |-> 75],
         backhand |-> [powerCeiling |-> 40, spinCeiling |-> 88,
                       accuracy |-> 85, consistency |-> 88]],
     equipment |->
        [blade |-> [speed |-> 55],
         forehandRubber |-> [type |-> "inverted", spin |-> 85, speed |-> 70,
                             control |-> 80],
         backhandRubber |-> [type |-> "longPips", spin |-> 40, speed |-> 35,
                             control |-> 90]],
     strokeTendencies |->
        [powerBias |-> 28, spinIntensity |-> 80, topspinBias |-> 20,
         sidespinUsage |-> 15, depthBias |-> 65, netClearance |-> 72,
         riskTolerance |-> 30],
     serveTendencies |->
        [length |-> 25, speed |-> 30, spinAmount |-> 80, spinVariation |-> 70,
         backspinBias |-> 75, sidespinBias |-> 45, risk |-> 30]]

Players == <<Attacker, Chopper>>

\* the points played: the attacker serves at 3-2, the chopper at match point
Points ==
    { [server |-> 1,
       matchState |-> [isDeuce |-> FALSE, isGamePoint |-> FALSE,
                       isMatchPoint |-> FALSE]],
      [server |-> 2,
       matchState |-> [isDeuce |-> FALSE, isGamePoint |-> TRUE,
                       isMatchPoint |-> TRUE]] }

\* the configuration the player engines are built with: the defaults and
\* the spin-read and stamina values
EnginePlayerConfig ==
    mergePlayerConfig(
        [readDifficultyScale |-> 1000, readAccuracyBase |-> 300,
         readAccuracySpinReadScale |-> 700, readDifficultyPenalty |-> 500,
         minReadAccuracy |-> 50, spinNoiseStddev |-> 500,
         spinMisreadEpsilon |-> 1,
         staminaDrainBase |-> 20, staminaDrainDeficitScale |-> 30,
         staminaGameRecovery |-> 300, staminaTimeoutRecovery |-> 150])

ServerPosition == V2(0, 160000)

ReceiverPosition == V2(-40000, -175000)

\* the setup after a call: its phase, what it hands on, the call recorded
After(su, phase, op, in, out) ==
    [su EXCEPT !.phase = phase, !.calls = Append(@, [op |-> op, in |-> in]),
               !.outs = Append(@, out)]

InitEngine ==
    /\ rngs = [k \in Setups |-> createRng(42)]
    /\ sims = [k \in Setups |->
                 [phase |-> "start", server |-> 1,
                  engines |-> <<NewEngine, NewEngine>>, context |-> <<>>,
                  intention |-> <<>>, flight |-> <<>>, arrival |-> <<>>,
                  calls |-> <<>>, outs |-> <<>>]]
    /\ calls = Idle /\ outs = Idle /\ fl = Idle /\ sv = Idle /\ calc = Idle

\* the server's engine decides the serve
DecideServe(k) ==
    /\ sims[k].phase = "start"
    /\ \E p \in Points :
          \E ctx \in {[playerPosition |-> ServerPosition,
                       opponentPosition |-> ReceiverPosition,
                       player |-> Players[p.server],
                       opponent |-> Players[3 - p.server],
                       matchState |-> p.matchState, recentPoints |-> <<>>]} :
             \E d \in {engineDecideServe(sims[k].engines[p.server], ctx, rngs,
                                         k, EnginePlayerConfig)} :
                /\ rngs' = d.out.H
                /\ sims' = [sims EXCEPT ![k] =
                      [After(@, "serveDecided", "decideServe", ctx, d.out.v)
                         EXCEPT !.server = p.server,
                                !.context = ctx,
                                !.engines[p.server] = d.engine,
                                !.intention = d.out.v]]
    /\ UNCHANGED <<calls, outs, fl, sv, calc>>

\* the physics engine executes the serve decided
ExecuteServe(k) ==
    /\ sims[k].phase = "serveDecided"
    /\ \E f \in {executeServe(sims[k].intention,
                     Players[sims[k].server].strokeCapabilities,
                     Players[sims[k].server].equipment,
                     Players[sims[k].server].attributes.service,
                     DEFAULT_PHYSICS_CONFIG, rngs, k)} :
          /\ rngs' = f.H
          /\ sims' = [sims EXCEPT ![k] =
                [After(@, "inFlight", "executeServe",
                       [intention |-> sims[k].intention,
                        player |-> sims[k].server], f.v)
                   EXCEPT !.flight = f.v]]
    /\ UNCHANGED <<calls, outs, fl, sv, calc>>

\* the physics engine analyses the arrival at the receiver
AnalyzeArrival(k) ==
    /\ sims[k].phase = "inFlight"
    /\ \E pos \in {ReceiverPosition} :
          \E a \in {analyzeArrival(sims[k].flight, pos,
                       Players[3 - sims[k].server].attributes.footwork,
                       DEFAULT_PHYSICS_CONFIG)} :
             sims' = [sims EXCEPT ![k] =
                [After(@, "arrived", "analyzeArrival",
                       [ball |-> sims[k].flight, receiverPosition |-> pos,
                        player |-> 3 - sims[k].server], a)
                   EXCEPT !.arrival = a,
                          !.context =
                             [arrival |-> a, playerPosition |-> pos,
                              opponentPosition |-> ServerPosition,
                              player |-> Players[3 - sims[k].server],
                              opponent |-> Players[sims[k].server],
                              matchState |-> sims[k].context.matchState,
                              rallyHistory |->
                                 <<[player |-> Players[sims[k].server].name,
                                    side |-> sims[k].intention.side,
                                    ballFlight |-> sims[k].flight]>>,
                              recentPoints |-> <<>>]]]
    /\ UNCHANGED <<rngs, calls, outs, fl, sv, calc>>

\* the receiver's engine decides the return
DecideShot(k) ==
    /\ sims[k].phase = "arrived"
    /\ \E d \in {engineDecideShot(sims[k].engines[3 - sims[k].server],
                     sims[k].context, rngs, k, EnginePlayerConfig)} :
          /\ rngs' = d.out.H
          /\ sims' = [sims EXCEPT ![k] =
                [After(@, "shotDecided", "decideShot", sims[k].context,
                       d.out.v)
                   EXCEPT !.engines[3 - sims[k].server] = d.engine,
                          !.intention = d.out.v]]
    /\ UNCHANGED <<calls, outs, fl, sv, calc>>

\* the physics engine executes the return decided
ExecuteShot(k) ==
    /\ sims[k].phase = "shotDecided"
    /\ \E f \in {executeShot(sims[k].intention,
                     Players[3 - sims[k].server].strokeCapabilities,
                     Players[3 - sims[k].server].equipment,
                     sims[k].arrival, DEFAULT_PHYSICS_CONFIG, rngs, k)} :
          /\ rngs' = f.H
          /\ sims' = [sims EXCEPT ![k] =
                [After(@, "returned", "executeShot",
                       [intention |-> sims[k].intention,
                        player |-> 3 - sims[k].server,
                        arrival |-> sims[k].arrival], f.v)
                   EXCEPT !.flight = f.v]]
    /\ UNCHANGED <<calls, outs, fl, sv, calc>>

NextEngine ==
    \E k \in Setups :
        \/ DecideServe(k)
        \/ ExecuteServe(k)
        \/ AnalyzeArrival(k)
        \/ DecideShot(k)
        \/ ExecuteShot(k)

SpecEngine == InitEngine /\ [][NextEngine]_vars

\* C2: two setups built from the same seed return the same ArrivalState,
\* ShotIntention or ServeIntention and BallFlight values as long as they are
\* given the same calls with the same arguments in the same order: on every
\* common prefix of the two call sequences the results agree, however the
\* calls of the two setups are interleaved.
C2_SameSeedSameRally ==
    \A n \in 0..Min2(Len(sims[1].calls), Len(sims[2].calls)) :
        SubSeq(sims[1].calls, 1, n) = SubSeq(sims[2].calls, 1, n)
            => SubSeq(sims[1].outs, 1, n) = SubSeq(sims[2].outs, 1, n)

\* C2 witness: both setups have played the serve and the return of the same
\* point, the generators have been drawn from, and the five results agree
C2_Witness ==
    /\ sims[1].phase = "returned" /\ sims[2].phase = "returned"
    /\ sims[1].calls = sims[2].calls
    /\ sims[1].outs = sims[2].outs
    /\ rngs[1] # createRng(42)
    /\ sims[1].outs[5].velocity # sims[1].outs[2].velocity

\* the serve of setup k executed for the intention with another net
\* clearance and another target depth, from the generators H
serveWith(k, intention, nc, y, H) ==
    executeServe([intention EXCEPT !.netClearance = nc,
                                   !.targetPosition = V2(@.x, y)],
                 Players[sims[k].server].strokeCapabilities,
                 Players[sims[k].server].equipment,
                 Players[sims[k].server].attributes.service,
                 DEFAULT_PHYSICS_CONFIG, H, k)

\* another net clearance with another target depth, on either half
OtherAims == {<<1000, 50000>>, <<25000, -100000>>}

\* C30: the BallFlight executeServe returns, and the generator it leaves,
\* are those it returns for the same intention with any other netClearance
\* and any other targetPosition.y: the launch is solved from the start
\* behind the +Y end line toward a first bounce on the same half, where the
\* net-clearance constraint does not apply.
C30_ServeIgnoresClearanceAndDepth ==
    [][\A k \in Setups :
          (sims[k].phase = "serveDecided" /\ sims'[k].phase = "inFlight") =>
             \A aim \in OtherAims :
                serveWith(k, sims[k].intention, aim[1], aim[2], rngs)
                   = [H |-> rngs', v |-> sims'[k].flight]]_vars

\* the generator of setup k after its first call, the decision of the serve
serveDecidedFrom(k) ==
    engineDecideServe(NewEngine, sims[k].calls[1].in,
                      [s \in Setups |-> createRng(42)], k,
                      EnginePlayerConfig).out.H

\* a serve aimed at the far half with some net clearance has been executed,
\* it started behind the +Y end line and went toward the net, and the flight
\* is the one of an intention aimed at the server's own half with another
\* clearance
C30_Witness ==
    /\ sims[1].phase = "inFlight"
    /\ sims[1].intention.targetPosition.y < 0
    /\ sims[1].intention.netClearance # 25000
    /\ sims[1].flight.startPosition.y > 0
    /\ sims[1].flight.velocity.y < 0
    /\ serveWith(1, sims[1].intention, 25000, 50000, serveDecidedFrom(1)).v
          = sims[1].flight

----------------------------------------------------------------------------
(* SpecGear: one shot intention executed by two physics engines, each with  *)
(* its own generator built from the same seed, for two players who differ   *)
(* in equipment only.  sims holds the intention, the arrival and the two    *)
(* flights returned; rngs[k] is the generator of engine k.                  *)

\* the equipment of the two players: the second has the higher blade and
\* rubber speed ratings
Gear ==
    << [blade |-> [speed |-> 60],
        forehandRubber |-> [type |-> "inverted", spin |-> 90, speed |-> 55,
                            control |-> 65],
        backhandRubber |-> [type |-> "inverted", spin |-> 82, speed |-> 50,
                            control |-> 72]],
       [blade |-> [speed |-> 88],
        forehandRubber |-> [type |-> "inverted", spin |-> 90, speed |-> 85,
                            control |-> 65],
        backhandRubber |-> [type |-> "inverted", spin |-> 82, speed |-> 80,
                            control |-> 72]] >>

InitGear ==
    /\ rngs = [k \in {1, 2} |-> createRng(42)]
    /\ \E side \in {"forehand", "backhand"}, power \in {50, 200, 800},
          target \in {V2(0, 80000), V2(-40000, 120000)},
          ball \in {V3(0, -150000, 23000), V3(30000, -100000, 28000),
                    V3(0, 0, 25000)},
          deficit \in {0, 600} :
          sims = [intention |->
                     [side |-> side, power |-> power, spinIntensity |-> 500,
                      spinDirection |-> [topspin |-> 900, sidespin |-> 0],
                      targetPosition |-> target, netClearance |-> 5000,
                      deceptionEffort |-> 0,
                      recoveryTarget |-> V2(0, -150000)],
                  arrival |->
                     [ballPosition |-> ball,
                      ballVelocity |-> V3(0, -600000, 150000),
                      ballSpin |-> V3(20000, 0, 0), timeAvailable |-> 350000,
                      availableSides |-> <<"forehand", "backhand">>,
                      positionalDeficit |-> deficit],
                  flights |-> <<NoResult, NoResult>>]
    /\ calls = Idle /\ outs = Idle /\ fl = Idle /\ sv = Idle /\ calc = Idle

\* engine k executes the intention for the player with equipment Gear[k]
GearShot(k) ==
    /\ sims.flights[k] = NoResult
    /\ \E f \in {executeShot(sims.intention, Attacker.strokeCapabilities,
                             Gear[k], sims.arrival, DEFAULT_PHYSICS_CONFIG,
                             rngs, k)} :
          /\ rngs' = f.H
          /\ sims' = [sims EXCEPT !.flights[k] = f.v]
    /\ UNCHANGED <<calls, outs, fl, sv, calc>>

NextGear == \E k \in {1, 2} : GearShot(k)

SpecGear == InitGear /\ [][NextGear]_vars

\* C13: with the intention, the arrival state and the draws the same, the
\* flight returned for the player with the higher blade and rubber speed
\* ratings has the strictly higher launch speed (magnitude of velocity).
C13_FasterGearFasterShot ==
    (sims.flights[1] # NoResult /\ sims.flights[2] # NoResult)
        => v3mag(sims.flights[2].velocity) > v3mag(sims.flights[1].velocity)

----------------------------------------------------------------------------
(* SpecPlayers: the engines of two players built by one factory             *)
(* (createDefaultPlayerEngineFactory), so that both hold the same generator *)
(* (rngs[1]) and the same configuration.  sims holds the players, the       *)
(* configuration, the fields of the two engines and the number of lifecycle *)
(* notifications made; calls counts the decisions made; outs is the last    *)
(* call: the operation, the engine, the context, the result returned, and   *)
(* the generator, the engines and the call made before it.                  *)

MaxDecisions == 2

MaxNotices == 1

\* a player whose attributes, capabilities and tendencies all have the value n
Uniform(n) ==
    [name |-> "Uniform",
     attributes |-> [footwork |-> n, reaction |-> n, spinRead |-> n,
                     deception |-> n, stamina |-> n, mental |-> n,
                     service |-> n, adaptability |-> n],
     strokeCapabilities |->
        [forehand |-> [powerCeiling |-> n, spinCeiling |-> n,
                       accuracy |-> n, consistency |-> n],
         backhand |-> [powerCeiling |-> n, spinCeiling |-> n,
                       accuracy |-> n, consistency |-> n]],
     equipment |-> Attacker.equipment,
     strokeTendencies |->
        [powerBias |-> n, spinIntensity |-> n, topspinBias |-> n,
         sidespinUsage |-> n, depthBias |-> n, netClearance |-> n,
         riskTolerance |-> n],
     serveTendencies |->
        [length |-> n, speed |-> n, spinAmount |-> n, spinVariation |-> n,
         backspinBias |-> n, sidespinBias |-> n, risk |-> n]]

\* fields held once for every engine of the factory
fieldsOfFactory(k) == 1

\* the storage of the fields of the engine the factory built for player k:
\* instance fields, one set per engine
fieldsOf(k) == k

\* the rally contexts a player is asked to decide in: an easy ball without
\* spin at the +Y end; a spinning ball out of reach at the -Y end at game
\* point, after a deceptive shot; a spinning ball after a shot played with
\* no deception effort
ShotContexts(player, opponent) ==
    { [arrival |->
          [ballPosition |-> V3(10000, 120000, 25000),
           ballVelocity |-> V3(0, 600000, 150000),
           ballSpin |-> V3(0, 0, 0), timeAvailable |-> 400000,
           availableSides |-> <<"forehand", "backhand">>,
           positionalDeficit |-> 0],
       playerPosition |-> V2(0, 160000),
       opponentPosition |-> V2(-40000, -175000),
       player |-> player, opponent |-> opponent,
       matchState |-> [isDeuce |-> FALSE, isGamePoint |-> FALSE,
                       isMatchPoint |-> FALSE],
       rallyHistory |-> <<>>, recentPoints |-> <<>>],
      [arrival |->
          [ballPosition |-> V3(-60000, -130000, 20000),
           ballVelocity |-> V3(-100000, -900000, 100000),
           ballSpin |-> V3(-20000, 90000, 10000), timeAvailable |-> 150000,
           availableSides |-> <<"backhand">>,
           positionalDeficit |-> 600],
       playerPosition |-> V2(20000, -160000),
       opponentPosition |-> V2(0, 170000),
       player |-> player, opponent |-> opponent,
       matchState |-> [isDeuce |-> FALSE, isGamePoint |-> TRUE,
                       isMatchPoint |-> FALSE],
       rallyHistory |-> <<[player |-> opponent.name, side |-> "forehand",
                           deceptionEffort |-> 800]>>,
       recentPoints |-> <<>>],
      [arrival |->
          [ballPosition |-> V3(10000, 120000, 25000),
           ballVelocity |-> V3(0, 600000, 150000),
           ballSpin |-> V3(30000, 0, 0), timeAvailable |-> 400000,
           availableSides |-> <<"forehand", "backhand">>,
           positionalDeficit |-> 0],
       playerPosition |-> V2(0, 160000),
       opponentPosition |-> V2(30000, -175000),
       player |-> player, opponent |-> opponent,
       matchState |-> [isDeuce |-> FALSE, isGamePoint |-> FALSE,
                       isMatchPoint |-> FALSE],
       rallyHistory |-> <<[player |-> opponent.name, side |-> "backhand",
                           deceptionEffort |-> 0]>>,
       recentPoints |-> <<>>] }

\* the serve contexts: the server at the +Y end, and at the -Y end at match
\* point
ServeContexts(player, opponent) ==
    { [playerPosition |-> V2(0, 160000), opponentPosition |-> V2(0, -160000),
       player |-> player, opponent |-> opponent,
       matchState |-> [isDeuce |-> FALSE, isGamePoint |-> FALSE,
                       isMatchPoint |-> FALSE],
       recentPoints |-> <<>>],
      [playerPosition |-> V2(0, -160000), opponentPosition |-> V2(0, 160000),
       player |-> player, opponent |-> opponent,
       matchState |-> [isDeuce |-> FALSE, isGamePoint |-> TRUE,
                       isMatchPoint |-> TRUE],
       recentPoints |-> <<>>] }

\* the factory is given the generator and the configuration, then builds one
\* engine per player
InitPlayers ==
    /\ rngs = <<createRng(42)>>
    /\ calls = 0
    /\ outs = [op |-> "none", k |-> 0]
    /\ \E players \in {<<Attacker, Chopper>>, <<Uniform(0), Uniform(100)>>},
          config \in {EnginePlayerConfig,
                      mergePlayerConfig(
                        [readDifficultyScale |-> 1000,
                         readAccuracyBase |-> 1000,
                         readAccuracySpinReadScale |-> 0,
                         readDifficultyPenalty |-> 2000,
                         minReadAccuracy |-> 0, spinNoiseStddev |-> 500,
                         spinMisreadEpsilon |-> 1,
                         staminaDrainBase |-> 900,
                         staminaDrainDeficitScale |-> 1000,
                         staminaGameRecovery |-> 500,
                         staminaTimeoutRecovery |-> 100])} :
          sims = [players |-> players, config |-> config,
                  engines |-> [c \in {fieldsOf(1), fieldsOf(2)} |-> NewEngine],
                  notices |-> 0]
    /\ fl = Idle /\ sv = Idle /\ calc = Idle

\* the call just made on engine k
Made(op, k, ctx, out) ==
    [op |-> op, k |-> k, ctx |-> ctx, out |-> out,
     before |-> [rngs |-> rngs, engines |-> sims.engines,
                 op |-> outs.op, k |-> outs.k]]

\* engine k decides a rally shot
PlayerDecideShot(k) ==
    /\ calls < MaxDecisions
    /\ \E ctx \in ShotContexts(sims.players[k], sims.players[3 - k]) :
          \E d \in {engineDecideShot(sims.engines[fieldsOf(k)], ctx, rngs, 1,
                                     sims.config)} :
             /\ rngs' = d.out.H
             /\ sims' = [sims EXCEPT !.engines[fieldsOf(k)] = d.engine]
             /\ outs' = Made("decideShot", k, ctx, d.out.v)
    /\ calls' = calls + 1
    /\ UNCHANGED <<fl, sv, calc>>

\* engine k decides a serve
PlayerDecideServe(k) ==
    /\ calls < MaxDecisions
    /\ \E ctx \in ServeContexts(sims.players[k], sims.players[3 - k]) :
          \E d \in {engineDecideServe(sims.engines[fieldsOf(k)], ctx, rngs, 1,
                                      sims.config)} :
             /\ rngs' = d.out.H
             /\ sims' = [sims EXCEPT !.engines[fieldsOf(k)] = d.engine]
             /\ outs' = Made("decideServe", k, ctx, d.out.v)
    /\ calls' = calls + 1
    /\ UNCHANGED <<fl, sv, calc>>

\* engine k is told that a point has ended
PlayerPointEnd(k) ==
    /\ sims.notices < MaxNotices
    /\ sims' = [sims EXCEPT !.engines[fieldsOf(k)] = onPointEnd(@),
                            !.notices = @ + 1]
    /\ outs' = Made("onPointEnd", k, <<>>, <<>>)
    /\ UNCHANGED <<rngs, calls, fl, sv, calc>>

\* engine k is told that a game has ended
PlayerGameEnd(k) ==
    /\ sims.notices < MaxNotices
    /\ sims' = [sims EXCEPT !.engines[fieldsOf(k)] = onGameEnd(@, sims.config),
                            !.notices = @ + 1]
    /\ outs' = Made("onGameEnd", k, <<>>, <<>>)
    /\ UNCHANGED <<rngs, calls, fl, sv, calc>>

\* engine k is told of a timeout
PlayerTimeout(k) ==
    /\ sims.notices < MaxNotices
    /\ sims' = [sims EXCEPT !.engines[fieldsOf(k)] = onTimeout(@, sims.config),
                            !.notices = @ + 1]
    /\ outs' = Made("onTimeout", k, <<>>, <<>>)
    /\ UNCHANGED <<rngs, calls, fl, sv, calc>>

NextPlayers ==
    \E k \in {1, 2} :
        \/ PlayerDecideShot(k)
        \/ PlayerDecideServe(k)
        \/ PlayerPointEnd(k)
        \/ PlayerGameEnd(k)
        \/ PlayerTimeout(k)

SpecPlayers == InitPlayers /\ [][NextPlayers]_vars

\* the last call was a decision
decided == outs.op \in {"decideShot", "decideServe"}

\* C14: whatever the tendencies and attributes in 0..100 and whatever the
\* generator draws, the intention returned by decideShot and by decideServe
\* has power, spinIntensity and deceptionEffort in [0, 1], both spin
\* direction components in [-1, 1], a net clearance of at least
\* minNetClearance, and the side forehand or backhand.
C14_IntentionWithinRanges ==
    decided =>
        /\ outs.out.power \in 0..1000
        /\ outs.out.spinIntensity \in 0..1000
        /\ outs.out.deceptionEffort \in 0..1000
        /\ outs.out.spinDirection.topspin \in -1000..1000
        /\ outs.out.spinDirection.sidespin \in -1000..1000
        /\ outs.out.netClearance >= sims.config.minNetClearance
        /\ outs.out.side \in {"forehand", "backhand"}

\* C14 witness: a player with every tendency at 100 has decided; the mapped
\* power, which exceeds 1 before the clamp, is returned as exactly 1
C14_Witness ==
    /\ decided
    /\ outs.ctx.player = Uniform(100)
    /\ outs.out.power = 1000
    /\ outs.out.spinDirection.topspin = 1000

\* C16: the serve target decideServe chooses lies on the table half
\* opposite the server: y in [-tableHalfLength, 0] for a server at +Y, y in
\* [0, tableHalfLength] for a server at -Y.
C16_ServeTargetOppositeServer ==
    outs.op = "decideServe" =>
        IF outs.ctx.playerPosition.y >= 0
        THEN outs.out.targetPosition.y \in -sims.config.tableHalfLength..0
        ELSE outs.out.targetPosition.y \in 0..sims.config.tableHalfLength

\* the deception effort of the shot that is arriving: that of the last shot
\* of the rally, 0 without one
incomingEffort ==
    IF Len(outs.ctx.rallyHistory) > 0
    THEN outs.ctx.rallyHistory[Len(outs.ctx.rallyHistory)].deceptionEffort
    ELSE 0

\* the read accuracy of the last decideShot call
readAccuracyOf ==
    computeReadAccuracy(outs.ctx.player.attributes.spinRead,
        computeReadDifficulty(outs.ctx.opponent.attributes.deception,
                              incomingEffort, sims.config),
        sims.config)

\* the spin the receiver perceived in the last decideShot call
perceivedOf ==
    computePerceivedSpin(outs.ctx.arrival.ballSpin, readAccuracyOf,
                         outs.before.rngs, 1, sims.config).perceivedSpin

\* C17 as stated: when the deception effort of the incoming shot is 0, the
\* read difficulty is 0 whatever the sender's deception attribute, and the
\* perceived spin is the actual spin exactly (misread 0), whatever the
\* receiver's spinRead attribute.
C17_NoEffortPerfectRead ==
    (outs.op = "decideShot" /\ incomingEffort = 0) =>
        /\ computeReadDifficulty(outs.ctx.opponent.attributes.deception,
                                 incomingEffort, sims.config) = 0
        /\ perceivedOf = outs.ctx.arrival.ballSpin
        /\ sims.engines[fieldsOf(outs.k)].lastMisread = 0

\* C17 amended: when the deception effort of the incoming shot is 0, the
\* read difficulty is 0 whatever the sender's deception attribute, and the
\* read accuracy is clamp(readAccuracyBase + spinRead / 100 *
\* readAccuracySpinReadScale, minReadAccuracy, 1); the perceived spin is the
\* actual spin exactly (misread 0) when that accuracy is 1 or the ball has
\* no spin (magnitude below spinMisreadEpsilon).
C17_NoEffortReadBySkill ==
    (outs.op = "decideShot" /\ incomingEffort = 0) =>
        /\ computeReadDifficulty(outs.ctx.opponent.attributes.deception,
                                 incomingEffort, sims.config) = 0
        /\ readAccuracyOf =
              clamp(sims.config.readAccuracyBase
                      + Mul(outs.ctx.player.attributes.spinRead * 10,
                            sims.config.readAccuracySpinReadScale),
                    sims.config.minReadAccuracy, 1000)
        /\ (readAccuracyOf = 1000
              \/ v3mag(outs.ctx.arrival.ballSpin)
                    < sims.config.spinMisreadEpsilon)
              => /\ perceivedOf = outs.ctx.arrival.ballSpin
                 /\ sims.engines[fieldsOf(outs.k)].lastMisread = 0

\* C17 witness: a spinning ball played with no deception effort by a sender
\* whose deception attribute is positive, read with accuracy 1: the engine
\* drew the three noise values and recorded a misread of 0
C17_Witness ==
    /\ outs.op = "decideShot"
    /\ Len(outs.ctx.rallyHistory) > 0 /\ incomingEffort = 0
    /\ outs.ctx.opponent.attributes.deception > 0
    /\ v3mag(outs.ctx.arrival.ballSpin) >= sims.config.spinMisreadEpsilon
    /\ readAccuracyOf = 1000
    /\ perceivedOf = outs.ctx.arrival.ballSpin
    /\ sims.engines[fieldsOf(outs.k)].lastMisread = 0

\* the fatigue of the engine called, before and after the last call
fatigueBefore == outs.before.engines[fieldsOf(outs.k)].fatigue

fatigueAfter == sims.engines[fieldsOf(outs.k)].fatigue

\* C18: after any sequence of calls the fatigue of every engine is in
\* [0, 1]; decideShot never lowers it and raises it strictly while it is
\* below 1, even for a player of stamina 100; onGameEnd and onTimeout never
\* raise it and leave a positive fatigue positive; decideServe and onPointEnd
\* leave it as it was.
C18_FatigueDrainsAndPartlyRecovers ==
    /\ \A k \in {1, 2} : sims.engines[fieldsOf(k)].fatigue \in 0..1000000
    /\ outs.op = "decideShot" =>
          /\ fatigueAfter >= fatigueBefore
          /\ fatigueBefore < 1000000 => fatigueAfter > fatigueBefore
    /\ outs.op \in {"onGameEnd", "onTimeout"} =>
          /\ fatigueAfter <= fatigueBefore
          /\ fatigueBefore > 0 => fatigueAfter > 0
    /\ outs.op \in {"decideServe", "onPointEnd"} =>
          fatigueAfter = fatigueBefore

\* C18 witness: a game ended for an engine whose fatigue had reached 1
\* through its decisions, and the fatigue is now lower but still positive
C18_Witness ==
    /\ outs.op = "onGameEnd"
    /\ fatigueBefore = 1000000
    /\ fatigueAfter \in 1..999999

\* the last call was a lifecycle notification
notified == outs.op \in {"onPointEnd", "onGameEnd", "onTimeout"}

\* C19: onPointEnd, onGameEnd and onTimeout draw nothing from the generator
\* and change nothing but the fatigue of the engine called, and the fatigue
\* is not read by a decision: after a notification the generator, the last
\* misread and the other fields are as before, and the intention a decision
\* returns, and the generator it leaves, are those a newly built engine
\* returns for the same context from the same generator.  So notifications
\* placed between decisions do not change the intentions returned later.
C19_NoticesLeaveDecisionsAlone ==
    /\ notified =>
          /\ rngs = outs.before.rngs
          /\ sims.engines =
                [outs.before.engines EXCEPT
                    ![fieldsOf(outs.k)].fatigue = fatigueAfter]
    /\ outs.op = "decideShot" =>
          /\ outs.out = engineDecideShot(NewEngine, outs.ctx,
                            outs.before.rngs, 1, sims.config).out.v
          /\ rngs = engineDecideShot(NewEngine, outs.ctx,
                        outs.before.rngs, 1, sims.config).out.H
    /\ outs.op = "decideServe" =>
          /\ outs.out = engineDecideServe(NewEngine, outs.ctx,
                            outs.before.rngs, 1, sims.config).out.v
          /\ rngs = engineDecideServe(NewEngine, outs.ctx,
                        outs.before.rngs, 1, sims.config).out.H

\* C19 witness: an engine made tired by a decision was told of a timeout,
\* which lowered its fatigue, and has then decided a shot from the generator
\* as the earlier decision left it
C19_Witness ==
    /\ outs.op = "decideShot"
    /\ outs.before.op = "onTimeout" /\ outs.before.k = outs.k
    /\ fatigueBefore \in 1..999999
    /\ outs.before.rngs # <<createRng(42)>>

\* C20: with two engines built by one factory on one generator, under every
\* interleaving of calls, a call on one engine leaves the fatigue and the
\* last misread of the other engine as they were; what the engines share is
\* the generator, which a decision of either engine advances for both.
C20_EnginesShareOnlyTheGenerator ==
    outs.op # "none" =>
        /\ sims.engines[fieldsOf(3 - outs.k)]
              = outs.before.engines[fieldsOf(3 - outs.k)]
        /\ decided => rngs # outs.before.rngs

\* C20 witness: after a decision of the other engine had advanced the
\* generator and made that engine tired, this engine decided a shot: its own
\* fatigue and last misread changed, those of the other engine did not
C20_Witness ==
    /\ outs.op = "decideShot"
    /\ outs.before.op = "decideShot" /\ outs.before.k = 3 - outs.k
    /\ outs.before.rngs # <<createRng(42)>>
    /\ outs.before.engines[fieldsOf(3 - outs.k)].fatigue > 0
    /\ sims.engines[fieldsOf(3 - outs.k)]
          = outs.before.engines[fieldsOf(3 - outs.k)]
    /\ fatigueAfter > fatigueBefore
    /\ sims.engines[fieldsOf(outs.k)].lastMisread > 0
    /\ sims.engines[fieldsOf(outs.k)] # sims.engines[fieldsOf(3 - outs.k)]

\* the intention the engine of the last decision returns, from the
\* generator and the fields it started from, for the same context with
\* another spin on the arriving ball
intentionWithSpin(spin) ==
    engineDecideShot(outs.before.engines[fieldsOf(outs.k)],
                     [outs.ctx EXCEPT !.arrival.ballSpin = spin],
                     outs.before.rngs, 1, sims.config).out.v

OtherSpins ==
    {V3(0, 0, 0), V3(0, 0, 500), V3(-20000, 90000, 10000), V3(30000, 0, 0)}

\* the ball has less spin than spinMisreadEpsilon
spinless(spin) == v3mag(spin) < sims.config.spinMisreadEpsilon

\* C29 as stated: from the same generator and after the same calls,
\* decideShot returns the same intention for two contexts that differ only
\* in arrival.ballSpin.
C29_IntentionIgnoresBallSpin ==
    outs.op = "decideShot" =>
        \A spin \in OtherSpins : intentionWithSpin(spin) = outs.out

\* C29: from the same generator and after the same calls, decideShot returns
\* the same intention for two contexts that differ only in arrival.ballSpin
\* when both balls spin (magnitude at least spinMisreadEpsilon) or neither
\* does: the perceived spin is not part of the intention.
C29_IntentionIgnoresSpinOfSpinningBalls ==
    outs.op = "decideShot" =>
        \A spin \in OtherSpins :
            spinless(spin) = spinless(outs.ctx.arrival.ballSpin)
                => intentionWithSpin(spin) = outs.out

\* a spinning ball was misread, another spinning ball gives the intention
\* returned, and the ball without spin gives another one
C29_Witness ==
    /\ outs.op = "decideShot"
    /\ outs.ctx.arrival.ballSpin = V3(30000, 0, 0)
    /\ sims.engines[fieldsOf(outs.k)].lastMisread > 0
    /\ intentionWithSpin(V3(-20000, 90000, 10000)) = outs.out
    /\ intentionWithSpin(V3(0, 0, 0)) # outs.out

----------------------------------------------------------------------------
(* SpecTarget: computeTargetPosition called on a generator built from one   *)
(* of several seeds, with the default configuration and with one whose      *)
(* jitter is larger than the table.  calc is the last call made, calls the  *)
(* number of calls.                                                         *)

MaxAims == 2

InitTarget ==
    /\ \E seed \in {7, 42} : rngs = <<createRng(seed)>>
    /\ calls = 0
    /\ calc = [op |-> "none"]
    /\ outs = Idle /\ fl = Idle /\ sv = Idle /\ sims = Idle

AimShot ==
    /\ calls < MaxAims
    /\ \E depthBias \in {0, 1000}, riskFactor \in {0, 1000},
          opponentPosition \in {V2(-40000, 160000), V2(30000, -160000)},
          playerY \in {160000, 0, -160000},
          o \in {NoOverrides, [targetJitterStddev |-> 150000]} :
          \E t \in {computeTargetPosition(depthBias, riskFactor,
                       opponentPosition, playerY, rngs, 1,
                       mergePlayerConfig(o))} :
             /\ calc' = Called("computeTargetPosition",
                          [depthBias |-> depthBias, riskFactor |-> riskFactor,
                           opponentPosition |-> opponentPosition,
                           playerY |-> playerY, overrides |-> o],
                          t.v, {})
             /\ rngs' = t.H
    /\ calls' = calls + 1
    /\ UNCHANGED <<outs, fl, sv, sims>>

SpecTarget == InitTarget /\ [][AimShot]_vars

\* C15: whatever noise is drawn, the target computeTargetPosition returns is
\* inside the table half opposite the player: |x| <= tableHalfWidth, and y
\* in [-tableHalfLength, 0] for playerY >= 0, in [0, tableHalfLength] for
\* playerY < 0.
C15_TargetInOppositeHalf ==
    calc.op = "computeTargetPosition" =>
        /\ Abs(calc.out.x) <= DEFAULT_PLAYER_ENGINE_CONFIG.tableHalfWidth
        /\ calc.in.playerY >= 0 =>
              calc.out.y \in -DEFAULT_PLAYER_ENGINE_CONFIG.tableHalfLength..0
        /\ calc.in.playerY < 0 =>
              calc.out.y \in 0..DEFAULT_PLAYER_ENGINE_CONFIG.tableHalfLength

\* C15 witness: for a player at -Y the jitter carried the aim across the net
\* line and past the side line, and the target returned is the corner of the
\* opposite half on the line y = 0
C15_Witness ==
    /\ calc.op = "computeTargetPosition"
    /\ calc.in.playerY < 0
    /\ calc.in.overrides # NoOverrides
    /\ calc.out.y = 0
    /\ calc.out.x = DEFAULT_PLAYER_ENGINE_CONFIG.tableHalfWidth

====
